---- MODULE Spec2Model ----
(***************************************************************************)
(* Model of the video generation pipeline of backend/modal/dev:            *)
(*   - generate_educational_video_logic (generator_logic.py), the          *)
(*     orchestrator: specification Spec;                                   *)
(*   - try_render_with_fallback (generator_logic.py), the per-section      *)
(*     cross-variant render / repair loop: specification SpecFallback;     *)
(*   - render_single_scene_logic (renderer.py), the render unit with its   *)
(*     internal render / repair loop: specification SpecRender.            *)
(* The orchestrator is a generator: one action models the code between two *)
(* yields; the per-section tasks of an asyncio.gather are one action per   *)
(* task, so every completion order is a behaviour.                         *)
(***************************************************************************)
EXTENDS Integers, Sequences, FiniteSets, TLC

\* ------------------------------------------------------------------------
\* Bounds and program constants
\* ------------------------------------------------------------------------

\* largest number of sections a plan lists
MaxSections == 2

\* generate_code_variants_for_section starts variant tasks 1, 2, 3
NumVariants == 3

\* try_render_with_fallback: MAX_FIX_ATTEMPTS = 3
MAX_FIX_ATTEMPTS == 3

\* config.py: MAX_RENDER_ATTEMPTS = 2
MAX_RENDER_ATTEMPTS == 2

\* Python's None
None == "None"

\* job_id = job_id or str(uuid.uuid4())
JobId == "job"

Variants == 1..NumVariants

\* ------------------------------------------------------------------------
\* State
\* ------------------------------------------------------------------------
VARIABLES
    \* --- generate_educational_video_logic ---
    pc,                     \* position of the generator (between two yields)
    image_context,          \* TRUE iff the request carries image_context
    video_structure,        \* the plan's sections (sequence of section names)
    events,                 \* the events yielded so far
    calls,                  \* external operations invoked so far
    required_failed,        \* required operations that failed (raised)
    advisory_failed,        \* advisory operations that failed or raised
    code_gen_results,       \* per section: result of generate_code_variants_for_section
    section_code_variants,  \* dict section -> [(variant_num, code)]
    audio_gen_results,      \* per section: result of generate_audio_from_script
    audio_map,              \* dict section -> audio available
    patched_code_variants,  \* dict section -> variants sent to rendering
    render_results,         \* per render task: result of render_section_with_variants
    local_files,            \* sections whose clip exists locally after the reload
    scene_videos,           \* clips found locally, after the sort
    successful_sections,    \* delivered sections, in the order appended
    final_video_url,        \* public URL of the final video, or None
    \* --- try_render_with_fallback (one section) ---
    fb_pc,                  \* position inside the call
    fb_code_variants,       \* code_variants of the current (recursive) call
    fb_fix_attempt,         \* fix_attempt of the current (recursive) call
    fb_next,                \* index of the next variant of the for loop
    fb_trace,               \* render spawns, render results and repair rounds so far
    fb_result,              \* the returned tuple
    fb_running,             \* the render invocations of the section that are executing
    \* --- render_single_scene_logic ---
    rd_section_num,         \* the argument section_num
    rd_pc,                  \* position inside the call
    rd_attempt,             \* the loop variable attempt
    rd_current_file,        \* current_file, the source the renderer is given
    rd_trace,               \* renderer invocations and repair calls so far
    rd_result,              \* the returned tuple
    \* --- normalize_prompt ---
    np_pc,                  \* "call", "once" (normalized), "twice" (normalized again)
    np_input,               \* the argument prompt, a sequence of characters
    np_output,              \* normalize_prompt(prompt)
    np_again,               \* normalize_prompt(normalize_prompt(prompt))
    \* --- generate_video_api_logic, CacheService ---
    cache,                  \* the stored cache entries: key -> entry
    api_pc,                 \* "idle" (no stream open) or "streaming"
    api_count,              \* requests received so far
    api_item,               \* the request being served
    api_response,           \* what the handler returned: error, cached, stream
    api_lookup,             \* what the cache lookup of the request gave
    api_sse,                \* the SSE messages emitted for the request
    gen_calls,              \* invocations of the generation function for the request
    gen_events,             \* the events the generation function yielded
    gen_raised,             \* TRUE iff iterating the generation function raised
    api_store,              \* the store_cache call of the request's job
    cache_before,           \* the cache entries when the request arrived
    api_jobs,               \* per cache key, the mode and the completed event of the job that wrote the entry
    \* --- main_cli_logic ---
    cli_pc,                 \* main_cli_logic: off, iterating, returned, raised
    cli_stream,             \* the updates its generator has yielded
    cli_out,                \* what it has printed, in order
    \* --- Stage 1 of the orchestrator ---
    mega_plan,              \* what json.loads gave for the cleaned plan response
    \* --- PreGeneratedAudioService ---
    pg_pc,                  \* off, new (not constructed), ready, ctor_raised
    pg_file,                \* TRUE iff the audio file exists now
    pg_service,             \* the fields of the constructed service
    pg_results,             \* what the generate_from_text calls gave, in order
    \* --- ElevenLabsTimedService._extract_word_timings ---
    wt_pc,                  \* off, called, returned
    wt_characters,          \* the characters argument
    wt_words,               \* the list returned
    \* --- apply_all_manual_fixes ---
    mf_pc,                  \* off, called, applied, applied_again
    mf_code,                \* the code argument: lines of tokens
    mf_once,                \* apply_all_manual_fixes(code)
    mf_twice,               \* apply_all_manual_fixes(apply_all_manual_fixes(code))
    \* --- clean_manim_code ---
    cm_pc,                  \* off, called, cleaned
    cm_code,                \* the code argument: import lines and constructor calls
    cm_out,                 \* clean_manim_code(code, voice_id)
    \* --- the render units of one job, one per section ---
    un_key,                 \* TRUE iff the environment holds an ElevenLabs key
    un_pc,                  \* per unit: its position in render_single_scene_logic
    un_attempt,             \* per unit: the loop variable attempt
    un_current_file,        \* per unit: current_file
    un_files,               \* the paths that exist in the job's working directory
    un_written,             \* per unit: the paths it has created or written
    \* --- the legacy render unit beside the dev renderer ---
    lg_pc,                  \* {off}, or the set of the units that have run
    lg_outcomes,            \* the renderer subprocess outcomes, one per attempt
    lg_dev,                 \* what render_single_scene_logic did on them
    lg_legacy,              \* what the legacy render_single_scene did on them
    \* --- the variant-generation tasks of Stage 2 and the scripts ---
    vr_pc,                  \* off, codegen, audio or completed
    vr_tasks,               \* per section and variant: pending, or how the task ended
    vr_scripts,             \* section_scripts
    vr_variants,            \* section_code_variants: the variant numbers kept
    vr_audio,               \* per section: the text its synthesis was called with
    vr_reported             \* metadata.voiceover_scripts of the completed event

jobVars == <<pc, image_context, video_structure, events, calls, required_failed,
             advisory_failed, code_gen_results, section_code_variants,
             audio_gen_results, audio_map, patched_code_variants,
             render_results, local_files, scene_videos, successful_sections,
             final_video_url>>

fbVars == <<fb_pc, fb_code_variants, fb_fix_attempt, fb_next, fb_trace, fb_result,
           fb_running>>

rdVars == <<rd_section_num, rd_pc, rd_attempt, rd_current_file, rd_trace, rd_result>>

npVars == <<np_pc, np_input, np_output, np_again>>

apiVars == <<cache, api_pc, api_count, api_item, api_response, api_lookup, api_sse,
             gen_calls, gen_events, gen_raised, api_store, cache_before, api_jobs>>

cliVars == <<cli_pc, cli_stream, cli_out>>

\* the groups added after the cache and the API adapter
planVars == <<mega_plan>>

pgVars == <<pg_pc, pg_file, pg_service, pg_results>>

wtVars == <<wt_pc, wt_characters, wt_words>>

mfVars == <<mf_pc, mf_code, mf_once, mf_twice>>

cmVars == <<cm_pc, cm_code, cm_out>>

unVars == <<un_key, un_pc, un_attempt, un_current_file, un_files, un_written>>

lgVars == <<lg_pc, lg_outcomes, lg_dev, lg_legacy>>

vrVars == <<vr_pc, vr_tasks, vr_scripts, vr_variants, vr_audio, vr_reported>>

extVars == <<cliVars, planVars, pgVars, wtVars, mfVars, cmVars, unVars, lgVars, vrVars>>

coreVars == <<jobVars, fbVars, rdVars, npVars, apiVars>>

vars == <<coreVars, extVars>>

\* what each of the later parts leaves alone
notCli == <<coreVars, planVars, pgVars, wtVars, mfVars, cmVars, unVars, lgVars, vrVars>>

notPlan == <<fbVars, rdVars, npVars, apiVars, cliVars, pgVars, wtVars, mfVars, cmVars, unVars, lgVars, vrVars>>

notPg == <<coreVars, cliVars, planVars, wtVars, mfVars, cmVars, unVars, lgVars, vrVars>>

notWt == <<coreVars, cliVars, planVars, pgVars, mfVars, cmVars, unVars, lgVars, vrVars>>

notMf == <<coreVars, cliVars, planVars, pgVars, wtVars, cmVars, unVars, lgVars, vrVars>>

notCm == <<coreVars, cliVars, planVars, pgVars, wtVars, mfVars, unVars, lgVars, vrVars>>

notUn == <<coreVars, cliVars, planVars, pgVars, wtVars, mfVars, cmVars, lgVars, vrVars>>

notLg == <<coreVars, cliVars, planVars, pgVars, wtVars, mfVars, cmVars, unVars, vrVars>>

notVr == <<coreVars, cliVars, planVars, pgVars, wtVars, mfVars, cmVars, unVars, lgVars>>

\* ------------------------------------------------------------------------
\* Helpers
\* ------------------------------------------------------------------------

\* the elements of a finite set of integers as an ascending sequence
RECURSIVE AscSeq(_)
AscSeq(S) ==
    IF S = {} THEN <<>>
    ELSE LET m == CHOOSE x \in S : \A y \in S : x <= y
         IN  <<m>> \o AscSeq(S \ {m})

Range(seq) == {seq[i] : i \in 1..Len(seq)}

\* work_dir / f"section_{n}.mp4", the clip a render unit returns
ClipPath(s) == "/outputs/" \o JobId \o "/section_" \o ToString(s) \o ".mp4"

\* work_dir / f"{job_id}_final.mp4"
FinalVideoPath == "/outputs/" \o JobId \o "/" \o JobId \o "_final.mp4"

\* f"https://storage.googleapis.com/vid-gen-static/{job_id}/section_{n}.mp4"
SectionUrl(s) ==
    "https://storage.googleapis.com/vid-gen-static/" \o JobId \o "/section_"
        \o ToString(s) \o ".mp4"

\* section_details entry of one delivered section
SectionDetail(s) == [section |-> s, video_url |-> SectionUrl(s)]

\* final_video_url when the upload did not provide one
FallbackFinalUrl ==
    "https://storage.googleapis.com/vid-gen-static/" \o JobId \o "/final.mp4"

\* public_url returned by a successful upload_final_video
UploadedFinalUrl == "https://storage.googleapis.com/vid-gen-static/uploaded/final.mp4"

\* ------------------------------------------------------------------------
\* Events
\* ------------------------------------------------------------------------

\* a plausible slip: the event reports what remains
ProcessingEventRemaining(progress) ==
    [status |-> "processing", progress_percentage |-> 100 - progress, job_id |-> JobId]

\* yield update_job_progress({"status": "processing", ...})
ProcessingEvent(progress) ==
    [status |-> "processing", progress_percentage |-> progress, job_id |-> JobId]

\* the except clause of the outer try: str(e) prefixed, traceback, job_id
FailedEvent(msg) ==
    [status |-> "failed", error |-> "Error: " \o msg,
     traceback |-> "Traceback (most recent call last): " \o msg,
     job_id |-> JobId]

CompletedEvent(section_urls, section_details, url) ==
    [status |-> "completed", progress_percentage |-> 100, job_id |-> JobId,
     video_path |-> FinalVideoPath,
     sections |-> section_urls, section_details |-> section_details,
     final_video_url |-> url,
     metadata |-> [prompt |-> "prompt", num_sections |-> Len(section_urls)],
     num_sections |-> Len(section_urls)]


\* ------------------------------------------------------------------------
\* generate_educational_video_logic: pure parts
\* ------------------------------------------------------------------------

\* outcomes of an advisory (best-effort) operation: it succeeds, it returns a
\* failure result, or it raises
AdvisoryOutcomes == {"ok", "failed_result", "raised"}

\* a plausible slip: the call of an advisory operation is not wrapped, so its
\* exception reaches the outer except clause
AdvisoryPropagatesUnwrapped(outcome) == outcome = "raised"

\* try: <advisory operation> except Exception as e: print(...)
\* TRUE iff the exception of an advisory operation leaves the handler
AdvisoryPropagates(outcome) == FALSE

\* the list [(variant_num, code)] built from the successful variant tasks, in
\* the order of the gathered tasks 1, 2, 3
RECURSIVE CodeVariants(_)
CodeVariants(ok) ==
    IF ok = {} THEN <<>>
    ELSE LET v == CHOOSE x \in ok : \A y \in ok : x <= y
         IN  <<[variant_num |-> v, code |-> "generated"]>> \o CodeVariants(ok \ {v})

\* a plausible slip: a section without code raises instead of returning its
\* error, and asyncio.gather (without return_exceptions) re-raises it
CodeGenResultRaising(s, ok) ==
    IF ok = {}
    THEN [done |-> TRUE, raised |-> TRUE, section |-> s, code_variants |-> <<>>,
          error |-> "All code generation attempts failed"]
    ELSE [done |-> TRUE, raised |-> FALSE, section |-> s,
          code_variants |-> CodeVariants(ok), error |-> None]

\* generate_code_variants_for_section: (section_num, code_variants, script, error);
\* raised tells whether an exception left the task (the try/except of the
\* function returns every failure as a result)
CodeGenResult(s, ok) ==
    IF ok = {}
    THEN [done |-> TRUE, raised |-> FALSE, section |-> s, code_variants |-> <<>>,
          error |-> "All code generation attempts failed"]
    ELSE [done |-> TRUE, raised |-> FALSE, section |-> s,
          code_variants |-> CodeVariants(ok), error |-> None]

\* a plausible slip: the variants go to rendering as they were generated
PatchVariantsUnchanged(code_variants) == code_variants

\* patch_code_for_pregenerated_audio applied to every variant of a section
PatchVariants(code_variants) ==
    [i \in 1..Len(code_variants) |->
        [variant_num |-> code_variants[i].variant_num, code |-> "patched"]]

\* the two error texts of a terminal section failure (the second one carries
\* len(code_variants) in the source; only its kind is kept)
NoVariantFixed == "All variants and fix attempts failed"

FixAttemptsExhausted == "All variants failed after 3 fix attempts"

\* the values try_render_with_fallback returns for section s
FallbackReturns(s) ==
    {[success |-> TRUE, video_path |-> ClipPath(s), error |-> None, gcs |-> g] :
        g \in BOOLEAN}
    \cup {[success |-> FALSE, video_path |-> None, error |-> e, gcs |-> FALSE] :
        e \in {NoVariantFixed, FixAttemptsExhausted}}

\* render_section_with_variants: the 4-tuple of one render task
RenderSectionWithVariants(s, fb) ==
    IF fb.success
    THEN [done |-> TRUE, section |-> s, video_path |-> fb.video_path,
          error |-> None, gcs |-> fb.gcs]
    ELSE [done |-> TRUE, section |-> s, video_path |-> None,
          error |-> fb.error, gcs |-> FALSE]

\* a plausible slip: the branch of a failed upload does not look for the file
ProcessResultUnchecked(acc, r, exists) ==
    IF r.gcs
    THEN [successful_sections |-> Append(acc.successful_sections, r.section),
          scene_videos |->
            IF r.video_path # None /\ exists
            THEN Append(acc.scene_videos, [section |-> r.section, path |-> r.video_path])
            ELSE acc.scene_videos]
    ELSE IF r.video_path # None /\ r.error = None
    THEN [successful_sections |-> Append(acc.successful_sections, r.section),
          scene_videos |->
            Append(acc.scene_videos, [section |-> r.section, path |-> r.video_path])]
    ELSE acc

\* one iteration of the loop over render_results (after the volume reload);
\* exists is Path(video_path).exists()
ProcessResult(acc, r, exists) ==
    IF r.gcs
    THEN [successful_sections |-> Append(acc.successful_sections, r.section),
          scene_videos |->
            IF r.video_path # None /\ exists
            THEN Append(acc.scene_videos, [section |-> r.section, path |-> r.video_path])
            ELSE acc.scene_videos]
    ELSE IF r.video_path # None /\ r.error = None
    THEN IF exists
         THEN [successful_sections |-> Append(acc.successful_sections, r.section),
               scene_videos |->
                 Append(acc.scene_videos, [section |-> r.section, path |-> r.video_path])]
         ELSE acc
    ELSE acc

\* the loop over render_results, in the order of the list
RECURSIVE ProcessResults(_, _, _)
ProcessResults(results, exists, acc) ==
    IF results = <<>> THEN acc
    ELSE ProcessResults(Tail(results), exists,
                        ProcessResult(acc, Head(results), exists[Head(results).section]))

\* list.sort(key=lambda x: x[0]): stable insertion by section number
RECURSIVE InsertBySection(_, _)
InsertBySection(sorted, x) ==
    IF sorted = <<>> THEN <<x>>
    ELSE IF Head(sorted).section <= x.section
         THEN <<Head(sorted)>> \o InsertBySection(Tail(sorted), x)
         ELSE <<x>> \o sorted

RECURSIVE SortBySectionFrom(_, _)
SortBySectionFrom(rest, sorted) ==
    IF rest = <<>> THEN sorted
    ELSE SortBySectionFrom(Tail(rest), InsertBySection(sorted, Head(rest)))

\* a plausible slip: scene_videos.sort(key=..., reverse=True)
SortBySectionReversed(videos) ==
    LET asc == SortBySectionFrom(videos, <<>>)
    IN  [i \in 1..Len(asc) |-> asc[Len(asc) + 1 - i]]

\* scene_videos.sort(key=lambda x: x[0])
SortBySection(videos) == SortBySectionFrom(videos, <<>>)

\* sorted(successful_sections)
RECURSIVE InsertInt(_, _)
InsertInt(sorted, x) ==
    IF sorted = <<>> THEN <<x>>
    ELSE IF Head(sorted) <= x
         THEN <<Head(sorted)>> \o InsertInt(Tail(sorted), x)
         ELSE <<x>> \o sorted

RECURSIVE SortedFrom(_, _)
SortedFrom(rest, sorted) ==
    IF rest = <<>> THEN sorted
    ELSE SortedFrom(Tail(rest), InsertInt(sorted, Head(rest)))

Sorted(seq) == SortedFrom(seq, <<>>)

\* section_urls / section_details built over sorted(successful_sections)
SectionUrls(successful) ==
    LET srt == Sorted(successful) IN [i \in 1..Len(srt) |-> SectionUrl(srt[i])]

\* a plausible slip: the details are built over the sections in descending
\* order
SectionDetailsReversed(successful) ==
    LET srt == Sorted(successful)
    IN  [i \in 1..Len(srt) |-> SectionDetail(srt[Len(srt) + 1 - i])]

SectionDetails(successful) ==
    LET srt == Sorted(successful) IN [i \in 1..Len(srt) |-> SectionDetail(srt[i])]

\* the lines written to concat_list.txt, in the order of scene_videos
ConcatList(videos) == [i \in 1..Len(videos) |-> videos[i].path]

\* ------------------------------------------------------------------------
\* generate_educational_video_logic: the generator
\* ------------------------------------------------------------------------

Sections == 1..Len(video_structure)

Pending == [done |-> FALSE]

\* yield update_job_progress(event)
Yield(event) == events' = Append(events, event)

\* an exception reaches the outer except clause, which yields the failed event
Fail(op, msg) ==
    /\ Yield(FailedEvent(msg))
    /\ required_failed' = required_failed \cup {op}
    /\ pc' = "done"

\* the outcome of an advisory operation, logged
Advisory(op, outcome) ==
    advisory_failed' = IF outcome = "ok" THEN advisory_failed
                       ELSE advisory_failed \cup {op}

\* an advisory operation whose exception left its handler reaches the outer
\* except clause
FailAdvisory(op) ==
    /\ Yield(FailedEvent(op))
    /\ pc' = "done"

InitJob ==
    /\ pc = "setup"
    /\ image_context \in BOOLEAN
    /\ video_structure = <<>>
    /\ events = <<>>
    /\ calls = {}
    /\ required_failed = {}
    /\ advisory_failed = {}
    /\ code_gen_results = <<>>
    /\ section_code_variants = <<>>
    /\ audio_gen_results = <<>>
    /\ audio_map = <<>>
    /\ patched_code_variants = <<>>
    /\ render_results = <<>>
    /\ local_files = {}
    /\ scene_videos = <<>>
    /\ successful_sections = <<>>
    /\ final_video_url = None

\* Lines 93-174. work_dir.mkdir runs before the try statement: when it raises,
\* the exception leaves the generator and nothing is yielded. Inside the try
\* the three create_llm_service calls may raise; then the Stage 1 event.
Setup ==
    /\ pc = "setup"
    /\ UNCHANGED <<fbVars, rdVars, npVars, apiVars, extVars>>
    /\ \E mkdir_ok \in BOOLEAN, llm_ok \in BOOLEAN :
        IF ~mkdir_ok
        THEN /\ pc' = "raised"
             /\ required_failed' = required_failed \cup {"mkdir"}
             /\ calls' = calls \cup {"mkdir"}
             /\ UNCHANGED events
        ELSE /\ calls' = calls \cup {"mkdir", "llm_init"}
             /\ IF llm_ok
                THEN /\ Yield(ProcessingEvent(5))
                     /\ pc' = "planning"
                     /\ UNCHANGED required_failed
                ELSE Fail("llm_init", "create_llm_service failed")
    /\ UNCHANGED <<image_context, video_structure, advisory_failed, code_gen_results,
                   section_code_variants, audio_gen_results, audio_map,
                   patched_code_variants, render_results, local_files, scene_videos,
                   successful_sections, final_video_url>>

\* what the planner call yields: an exception, a response that is not JSON
\* after cleaning, JSON that is not an object, or a JSON plan listing
\* 0..MaxSections sections
PlanOutcomes == {"llm_error", "invalid_json", "not_object"} \cup {"plan"}

\* nothing was parsed (yet)
NoPlan == [kind |-> "none"]

\* json.loads raised JSONDecodeError
InvalidJson == [kind |-> "invalid_json"]

\* json.loads gave a value that is not an object (a list, a number, null)
NotObject == [kind |-> "not_object"]

\* json.loads gave an object: the length of its video_structure (0 when the
\* key is missing or the list empty) and its description ("" when missing)
PlanObject(k, description) ==
    [kind |-> "object", num_sections |-> k, description |-> description]

\* the descriptions the plans carry
Descriptions(k) == IF k = 0 THEN {"", "An overview"} ELSE {"An overview"}

PlanSection(name, content) ==
    [section |-> name, duration |-> "60 seconds", content |-> content]

\* a plausible slip: the fallback section does not take the description
VideoStructureNoContent(plan) ==
    IF plan.num_sections = 0
    THEN <<PlanSection("Main", "")>>
    ELSE [i \in 1..plan.num_sections |-> PlanSection("Section " \o ToString(i), "content")]

\* video_structure = mega_plan.get('video_structure', []), with the default
\* one-section structure when it is missing or empty
VideoStructure(plan) ==
    IF plan.num_sections = 0
    THEN <<PlanSection("Main", plan.description)>>
    ELSE [i \in 1..plan.num_sections |-> PlanSection("Section " \o ToString(i), "content")]

\* Lines 176-327: Stage 1, plan upload, the 15% event
Planning ==
    /\ pc = "planning"
    /\ UNCHANGED notPlan
    /\ \E plan \in PlanOutcomes, k \in 0..MaxSections, upload \in AdvisoryOutcomes :
        CASE plan = "llm_error" ->
                /\ calls' = calls \cup {"plan_llm"}
                /\ Fail("plan_llm", "plan generation failed")
                /\ UNCHANGED <<video_structure, advisory_failed, mega_plan>>
          [] plan = "invalid_json" ->
                /\ calls' = calls \cup {"plan_llm"}
                /\ mega_plan' = InvalidJson
                /\ Fail("plan_json", "JSONDecodeError")
                /\ UNCHANGED <<video_structure, advisory_failed>>
          [] plan = "not_object" ->
                /\ calls' = calls \cup {"plan_llm"}
                /\ mega_plan' = NotObject
                /\ Fail("plan_get", "object has no attribute 'get'")
                /\ UNCHANGED <<video_structure, advisory_failed>>
          [] plan = "plan" ->
                \E description \in Descriptions(k) :
                /\ calls' = calls \cup {"plan_llm", "plan_upload"}
                /\ mega_plan' = PlanObject(k, description)
                /\ video_structure' = VideoStructure(PlanObject(k, description))
                /\ Advisory("plan_upload", upload)
                /\ IF upload = "raised" /\ AdvisoryPropagates(upload)
                   THEN FailAdvisory("plan_upload") /\ UNCHANGED required_failed
                   ELSE /\ Yield(ProcessingEvent(15))
                        /\ pc' = "tts_init"
                        /\ UNCHANGED required_failed
    /\ UNCHANGED <<image_context, code_gen_results, section_code_variants,
                   audio_gen_results, audio_map, patched_code_variants,
                   render_results, local_files, scene_videos, successful_sections, final_video_url>>

\* Lines 329-362: the TTS service is constructed, then the Stage 2 event
InitTTS ==
    /\ pc = "tts_init"
    /\ UNCHANGED <<fbVars, rdVars, npVars, apiVars, extVars>>
    /\ calls' = calls \cup {"tts_init"}
    /\ \E tts_ok \in BOOLEAN :
        IF tts_ok
        THEN /\ Yield(ProcessingEvent(20))
             /\ pc' = "codegen"
             /\ code_gen_results' = [s \in Sections |-> Pending]
             /\ UNCHANGED required_failed
        ELSE /\ Fail("tts_init", "ElevenLabsTimedService failed")
             /\ UNCHANGED code_gen_results
    /\ UNCHANGED <<image_context, video_structure, advisory_failed,
                   section_code_variants, audio_gen_results, audio_map,
                   patched_code_variants, render_results, local_files, scene_videos,
                   successful_sections, final_video_url>>

\* the sets of variant tasks that return code, as drawn for one section:
\* none, only a later one, all
CodeGenOutcomes == {{}, {NumVariants}, Variants}

\* Lines 618-676: one task of generate_all_code_variants. ok is the set of
\* variant tasks that returned code; failures are collected, never raised.
CodeGenSection(s) ==
    /\ pc = "codegen"
    /\ s \in Sections
    /\ ~code_gen_results[s].done
    /\ UNCHANGED <<fbVars, rdVars, npVars, apiVars, extVars>>
    /\ \E ok \in CodeGenOutcomes :
        code_gen_results' = [code_gen_results EXCEPT ![s] = CodeGenResult(s, ok)]
    /\ calls' = calls \cup {"code_llm"}
    /\ UNCHANGED <<pc, image_context, video_structure, events, required_failed,
                   advisory_failed, section_code_variants, audio_gen_results,
                   audio_map, patched_code_variants, render_results, local_files, scene_videos,
                   successful_sections, final_video_url>>

\* Lines 678-710: the gather returns (an exception of a task would be raised
\* again by it), results are stored, the 45% event
CodeGenDone ==
    /\ pc = "codegen"
    /\ UNCHANGED <<fbVars, rdVars, npVars, apiVars, extVars>>
    /\ \A s \in Sections : code_gen_results[s].done
    /\ IF \E s \in Sections : code_gen_results[s].raised
       THEN /\ Fail("section_task", "exception raised by a section task")
            /\ UNCHANGED <<section_code_variants, audio_gen_results>>
       ELSE LET stored == {s \in Sections :
                            /\ code_gen_results[s].code_variants # <<>>
                            /\ code_gen_results[s].error = None}
            IN /\ section_code_variants' =
                    [s \in stored |-> code_gen_results[s].code_variants]
               /\ audio_gen_results' = [s \in stored |-> Pending]
               /\ Yield(ProcessingEvent(45))
               /\ pc' = "audio"
               /\ UNCHANGED required_failed
    /\ UNCHANGED <<image_context, video_structure, calls,
                   advisory_failed, code_gen_results, audio_map,
                   patched_code_variants, render_results, local_files, scene_videos,
                   successful_sections, final_video_url>>

\* Lines 712-739: one task of generate_all_audio_from_scripts; every failure
\* is returned as (section, None, script, error)
AudioSection(s) ==
    /\ pc = "audio"
    /\ s \in DOMAIN audio_gen_results
    /\ ~audio_gen_results[s].done
    /\ UNCHANGED <<fbVars, rdVars, npVars, apiVars, extVars>>
    /\ \E audio_ok \in BOOLEAN :
        audio_gen_results' = [audio_gen_results EXCEPT ![s] =
            [done |-> TRUE,
             audio_path |-> IF audio_ok THEN "section_" \o ToString(s) \o ".mp3" ELSE None,
             error |-> IF audio_ok THEN None ELSE "Audio file not generated"]]
    /\ calls' = calls \cup {"tts"}
    /\ UNCHANGED <<pc, image_context, video_structure, events, required_failed,
                   advisory_failed, code_gen_results, section_code_variants,
                   audio_map, patched_code_variants, render_results, local_files, scene_videos,
                   successful_sections, final_video_url>>

\* Lines 751-801: audio_map is filled, scripts upload, the 55% event
AudioDone ==
    /\ pc = "audio"
    /\ UNCHANGED <<fbVars, rdVars, npVars, apiVars, extVars>>
    /\ \A s \in DOMAIN audio_gen_results : audio_gen_results[s].done
    /\ audio_map' = [s \in DOMAIN audio_gen_results |->
                        /\ audio_gen_results[s].audio_path # None
                        /\ audio_gen_results[s].error = None]
    /\ calls' = calls \cup {"scripts_upload"}
    /\ \E upload \in AdvisoryOutcomes :
        /\ Advisory("scripts_upload", upload)
        /\ IF upload = "raised" /\ AdvisoryPropagates(upload)
           THEN FailAdvisory("scripts_upload")
           ELSE /\ Yield(ProcessingEvent(55))
                /\ pc' = "patch"
    /\ UNCHANGED <<image_context, video_structure, required_failed, code_gen_results,
                   section_code_variants, audio_gen_results, patched_code_variants,
                   render_results, local_files, scene_videos, successful_sections, final_video_url>>

\* Lines 803-911: Stage 3 patches the variants of the sections that have
\* audio; the Stage 4 event
Patch ==
    /\ pc = "patch"
    /\ UNCHANGED <<fbVars, rdVars, npVars, apiVars, extVars>>
    /\ patched_code_variants' =
        [s \in DOMAIN section_code_variants |->
            IF s \in DOMAIN audio_map /\ audio_map[s]
            THEN PatchVariants(section_code_variants[s])
            ELSE section_code_variants[s]]
    /\ render_results' = [s \in DOMAIN section_code_variants |-> Pending]
    /\ Yield(ProcessingEvent(65))
    /\ pc' = "render"
    /\ UNCHANGED <<image_context, video_structure, calls, required_failed,
                   advisory_failed, code_gen_results, section_code_variants,
                   audio_gen_results, audio_map, local_files, scene_videos, successful_sections,
                   final_video_url>>

\* Lines 913-928: one task of render_all_sections
RenderSection(s) ==
    /\ pc = "render"
    /\ s \in DOMAIN render_results
    /\ ~render_results[s].done
    /\ UNCHANGED <<fbVars, rdVars, npVars, apiVars, extVars>>
    /\ \E fb \in FallbackReturns(s) :
        render_results' = [render_results EXCEPT ![s] = RenderSectionWithVariants(s, fb)]
    /\ calls' = calls \cup {"render"}
    /\ UNCHANGED <<pc, image_context, video_structure, events, required_failed,
                   advisory_failed, code_gen_results, section_code_variants,
                   audio_gen_results, audio_map, patched_code_variants, local_files, scene_videos,
                   successful_sections, final_video_url>>

\* the list asyncio.gather returns: one result per task, in task order
GatheredResults ==
    LET order == AscSeq(DOMAIN render_results)
    IN  [i \in 1..Len(order) |-> render_results[order[i]]]

\* the sections whose render unit wrote a clip (the only clips the volume
\* reload can make visible)
RenderedSections == {s \in DOMAIN render_results : render_results[s].video_path # None}

\* Lines 940-1079: the gather returns, the volume is reloaded, the results
\* are processed, titles are generated, the 75% event
RenderDone ==
    /\ pc = "render"
    /\ UNCHANGED <<fbVars, rdVars, npVars, apiVars, extVars>>
    /\ \A s \in DOMAIN render_results : render_results[s].done
    /\ \E reload_ok \in BOOLEAN, files \in SUBSET RenderedSections :
        IF ~reload_ok
        THEN /\ calls' = calls \cup {"volume_reload"}
             /\ Fail("volume_reload", "volume reload failed")
             /\ UNCHANGED <<local_files, scene_videos, successful_sections>>
        ELSE LET exists == [s \in DOMAIN render_results |-> s \in files]
                 acc == ProcessResults(GatheredResults, exists,
                            [scene_videos |-> <<>>, successful_sections |-> <<>>])
             IN /\ local_files' = files
                /\ scene_videos' = SortBySection(acc.scene_videos)
                /\ successful_sections' = acc.successful_sections
                /\ calls' = calls \cup {"volume_reload"} \cup
                        (IF acc.successful_sections = <<>> THEN {} ELSE {"title_llm"})
                /\ Yield(ProcessingEvent(75))
                /\ pc' = "stage5"
                /\ UNCHANGED required_failed
    /\ UNCHANGED <<image_context, video_structure, advisory_failed, code_gen_results,
                   section_code_variants, audio_gen_results, audio_map,
                   patched_code_variants, render_results, final_video_url>>

\* Lines 1081-1094: the Stage 5 event
Stage5 ==
    /\ pc = "stage5"
    /\ UNCHANGED <<fbVars, rdVars, npVars, apiVars, extVars>>
    /\ Yield(ProcessingEvent(85))
    /\ pc' = "concat"
    /\ UNCHANGED <<image_context, video_structure, calls, required_failed,
                   advisory_failed, code_gen_results, section_code_variants,
                   audio_gen_results, audio_map, patched_code_variants,
                   render_results, local_files, scene_videos, successful_sections, final_video_url>>

\* Lines 1105-1115 and 1144-1154: best-effort upload of the final video
FinalUpload(upload) ==
    /\ Advisory("final_upload", upload)
    /\ IF upload = "raised" /\ AdvisoryPropagates(upload)
       THEN FailAdvisory("final_upload") /\ UNCHANGED final_video_url
       ELSE /\ final_video_url' = IF upload = "ok" THEN UploadedFinalUrl ELSE None
            /\ Yield(ProcessingEvent(90))
            /\ pc' = "finish"

\* a plausible slip: the test of the single clip reads <= 1
ConcatBranchAtMostOne(n) ==
    IF n <= 1 THEN "rename" ELSE "concat"

\* a plausible slip: every non-empty list of clips goes through ffmpeg
ConcatBranchNoRename(n) ==
    IF n >= 1 THEN "concat" ELSE "fail"

\* if len(scene_videos) == 1: ... elif len(scene_videos) > 1: ... else: raise
ConcatBranch(n) ==
    IF n = 1 THEN "rename"
    ELSE IF n > 1 THEN "concat"
    ELSE "fail"

\* Lines 1096-1188: rename, concatenate or fail; the 90% event
Concat ==
    /\ pc = "concat"
    /\ UNCHANGED <<fbVars, rdVars, npVars, apiVars, extVars>>
    /\ \E ffmpeg_exit_zero \in BOOLEAN, upload \in AdvisoryOutcomes :
        IF ConcatBranch(Len(scene_videos)) = "rename"
        THEN /\ calls' = calls \cup {"rename_final", "final_upload"}
             /\ FinalUpload(upload)
             /\ UNCHANGED required_failed
        ELSE IF ConcatBranch(Len(scene_videos)) = "concat"
        THEN IF ffmpeg_exit_zero
             THEN /\ calls' = calls \cup {"ffmpeg_concat", "final_upload"}
                  /\ FinalUpload(upload)
                  /\ UNCHANGED required_failed
             ELSE /\ calls' = calls \cup {"ffmpeg_concat"}
                  /\ Fail("ffmpeg_concat", "CalledProcessError")
                  /\ UNCHANGED <<final_video_url, advisory_failed>>
        ELSE /\ Fail("no_videos", "No videos were successfully rendered")
             /\ UNCHANGED <<calls, final_video_url, advisory_failed>>
    /\ UNCHANGED <<image_context, video_structure, code_gen_results,
                   section_code_variants, audio_gen_results, audio_map,
                   patched_code_variants, render_results, local_files, scene_videos,
                   successful_sections>>

\* Lines 1190-1266: the final URL, the cache write (skipped with
\* image_context), the completed event
Finish ==
    /\ pc = "finish"
    /\ UNCHANGED <<fbVars, rdVars, npVars, apiVars, extVars>>
    /\ final_video_url' = IF final_video_url = None THEN FallbackFinalUrl
                          ELSE final_video_url
    /\ \E store \in AdvisoryOutcomes :
        IF image_context
        THEN /\ Yield(CompletedEvent(SectionUrls(successful_sections),
                                     SectionDetails(successful_sections),
                                     final_video_url'))
             /\ pc' = "done"
             /\ UNCHANGED <<calls, advisory_failed>>
        ELSE /\ calls' = calls \cup {"cache_store"}
             /\ Advisory("cache_store", store)
             /\ IF store = "raised" /\ AdvisoryPropagates(store)
                THEN FailAdvisory("cache_store")
                ELSE /\ Yield(CompletedEvent(SectionUrls(successful_sections),
                                             SectionDetails(successful_sections),
                                             final_video_url'))
                     /\ pc' = "done"
    /\ UNCHANGED <<image_context, video_structure, required_failed, code_gen_results,
                   section_code_variants, audio_gen_results, audio_map,
                   patched_code_variants, render_results, local_files, scene_videos,
                   successful_sections>>

\* ------------------------------------------------------------------------
\* try_render_with_fallback (generator_logic.py, lines 433-616)
\* ------------------------------------------------------------------------

\* the section the call is made for
FbSection == 1

NoReturn == [success |-> FALSE, video_path |-> None, error |-> None, gcs |-> FALSE]

\* no call of try_render_with_fallback is being followed
FbOff ==
    /\ fb_pc = "off"
    /\ fb_code_variants = <<>>
    /\ fb_fix_attempt = 0
    /\ fb_next = 1
    /\ fb_trace = <<>>
    /\ fb_result = NoReturn
    /\ fb_running = 0

\* what waiting for one render invocation yields: a 4-tuple, a 3-tuple (the
\* old format) or an exception (of spawn, of get, or its 900 s timeout)
RenderOutcomes ==
    {[kind |-> "tuple4", video_path |-> p, error |-> e, gcs |-> g] :
        p \in {None, ClipPath(FbSection)}, e \in {None, "Render failed."}, g \in BOOLEAN}
    \cup {[kind |-> "tuple3", video_path |-> p, error |-> e] :
        p \in {None, ClipPath(FbSection)}, e \in {None, "Render failed."}}
    \cup {[kind |-> "raised", video_path |-> None, error |-> None]}

\* lines 469-474: unpack the 4-tuple or the 3-tuple
UnpackResult(outcome) ==
    IF outcome.kind = "tuple4"
    THEN [video_path |-> outcome.video_path, error |-> outcome.error, gcs |-> outcome.gcs]
    ELSE [video_path |-> outcome.video_path, error |-> outcome.error, gcs |-> FALSE]

\* a plausible slip: success also requires the storage upload
RenderSucceededWithUpload(outcome) ==
    /\ outcome.kind # "raised"
    /\ UnpackResult(outcome).video_path # None
    /\ UnpackResult(outcome).error = None
    /\ UnpackResult(outcome).gcs

\* line 476: if video_path and not error (an exception is caught: no success)
RenderSucceeded(outcome) ==
    /\ outcome.kind # "raised"
    /\ UnpackResult(outcome).video_path # None
    /\ UnpackResult(outcome).error = None

\* a plausible slip: fix_attempt <= MAX_FIX_ATTEMPTS
MayFixOffByOne(fix_attempt) == fix_attempt <= MAX_FIX_ATTEMPTS

\* line 492: if fix_attempt < MAX_FIX_ATTEMPTS
MayFix(fix_attempt) == fix_attempt < MAX_FIX_ATTEMPTS

\* line 605: the variants whose repair returned code, in list order, with
\* their repaired code
FixedVariants(code_variants, repaired) ==
    LET kept == SelectSeq(code_variants, LAMBDA vc : vc.variant_num \in repaired)
    IN  [i \in 1..Len(kept) |-> [variant_num |-> kept[i].variant_num, code |-> "repaired"]]

FbEntry(op, variant_num, good) ==
    [op |-> op, fix_attempt |-> fb_fix_attempt, variant_num |-> variant_num, good |-> good]

\* One call for one section, made with the variants Stage 2 generated
\* (patched in Stage 3 or not); every variant carries code.
FbCall ==
    /\ fb_pc = "loop"
    /\ \E ok \in (SUBSET Variants) \ {{}}, patched \in BOOLEAN :
        fb_code_variants = IF patched THEN PatchVariants(CodeVariants(ok))
                           ELSE CodeVariants(ok)
    /\ fb_fix_attempt = 0
    /\ fb_next = 1
    /\ fb_trace = <<>>
    /\ fb_result = NoReturn
    /\ fb_running = 0

\* the wait as it would be if an exception always meant the end of the
\* invocation
StillExecutingNever(outcome) == {FALSE}

\* lines 463-467 and 487-489: a tuple is the return value of the invocation,
\* which has ended; an exception is the invocation's own, or that of spawn
\* (both leave nothing executing), or that of get and of its 900 s timeout,
\* after which the invocation goes on: nothing cancels it
StillExecuting(outcome) == IF outcome.kind = "raised" THEN BOOLEAN ELSE {FALSE}

\* lines 455-461: the for loop takes the next variant and spawns its render
FbSpawn ==
    /\ fb_pc = "loop"
    /\ fb_next <= Len(fb_code_variants)
    /\ fb_trace' = Append(fb_trace,
                          FbEntry("spawn", fb_code_variants[fb_next].variant_num, FALSE))
    /\ fb_pc' = "waiting"
    /\ fb_running' = fb_running + 1
    /\ UNCHANGED <<fb_code_variants, fb_fix_attempt, fb_next, fb_result>>
    /\ UNCHANGED <<jobVars, rdVars, npVars, apiVars, extVars>>

\* lines 463-489: the wait ends; success returns, anything else moves on to
\* the next variant
FbResult ==
    /\ fb_pc = "waiting"
    /\ \E outcome \in RenderOutcomes :
        /\ \E still \in StillExecuting(outcome) :
              fb_running' = IF still THEN fb_running ELSE fb_running - 1
        /\ fb_trace' = Append(fb_trace,
                FbEntry("result", fb_code_variants[fb_next].variant_num,
                        /\ outcome.kind # "raised"
                        /\ outcome.video_path # None
                        /\ outcome.error = None))
        /\ IF RenderSucceeded(outcome)
           THEN /\ fb_result' = [success |-> TRUE,
                                 video_path |-> UnpackResult(outcome).video_path,
                                 error |-> None,
                                 gcs |-> UnpackResult(outcome).gcs]
                /\ fb_pc' = "returned"
                /\ UNCHANGED fb_next
           ELSE /\ fb_next' = fb_next + 1
                /\ fb_pc' = "loop"
                /\ UNCHANGED fb_result
    /\ UNCHANGED <<fb_code_variants, fb_fix_attempt>>
    /\ UNCHANGED <<jobVars, rdVars, npVars, apiVars, extVars>>

\* lines 491-616: every variant failed. Below the limit the repairs of all
\* variants are gathered (repaired: the variants whose repair returned code)
\* and the function calls itself with fix_attempt + 1; otherwise it returns
\* the terminal failure.
FbExhausted ==
    /\ fb_pc = "loop"
    /\ fb_next > Len(fb_code_variants)
    /\ IF MayFix(fb_fix_attempt)
       THEN \E repaired \in SUBSET {fb_code_variants[i].variant_num :
                                        i \in 1..Len(fb_code_variants)} :
              /\ fb_trace' = Append(fb_trace, FbEntry("fix", 0, FALSE))
              /\ IF FixedVariants(fb_code_variants, repaired) # <<>>
                 THEN /\ fb_code_variants' = FixedVariants(fb_code_variants, repaired)
                      /\ fb_fix_attempt' = fb_fix_attempt + 1
                      /\ fb_next' = 1
                      /\ UNCHANGED <<fb_pc, fb_result>>
                 ELSE /\ fb_result' = [success |-> FALSE, video_path |-> None,
                                       error |-> NoVariantFixed, gcs |-> FALSE]
                      /\ fb_pc' = "returned"
                      /\ UNCHANGED <<fb_code_variants, fb_fix_attempt, fb_next>>
       ELSE /\ fb_result' = [success |-> FALSE, video_path |-> None,
                             error |-> FixAttemptsExhausted, gcs |-> FALSE]
            /\ fb_pc' = "returned"
            /\ UNCHANGED <<fb_code_variants, fb_fix_attempt, fb_next, fb_trace>>
    /\ UNCHANGED fb_running
    /\ UNCHANGED <<jobVars, rdVars, npVars, apiVars, extVars>>

\* a render invocation that is no longer waited for ends (its container
\* lives 900 s at most: main_video_generator_dev_modular.py, line 116)
FbRenderEnds ==
    /\ fb_pc \in {"loop", "waiting", "returned"}
    /\ fb_running > (IF fb_pc = "waiting" THEN 1 ELSE 0)
    /\ fb_running' = fb_running - 1
    /\ UNCHANGED <<fb_pc, fb_code_variants, fb_fix_attempt, fb_next, fb_trace, fb_result>>
    /\ UNCHANGED <<jobVars, rdVars, npVars, apiVars, extVars>>

NextFallback ==
    \/ FbSpawn
    \/ FbResult
    \/ FbExhausted
    \/ FbRenderEnds

\* ------------------------------------------------------------------------
\* render_single_scene_logic (renderer.py)
\* ------------------------------------------------------------------------

\* no call of render_single_scene_logic is being followed
RdOff ==
    /\ rd_section_num = 0
    /\ rd_pc = "off"
    /\ rd_attempt = 0
    /\ rd_current_file = None
    /\ rd_trace = <<>>
    /\ rd_result = <<>>

\* work_dir / f"section_{section_num}.py"
CodeFile(n) == "section_" \o ToString(n) \o ".py"

\* work_dir / f"section_{section_num}_repaired.py"
RepairedFile(n) == "section_" \o ToString(n) \o "_repaired.py"

\* what a candidate output directory holds after a renderer run
DirStates == {"missing", "empty", "mp4"}

\* possible_dirs = [.../480p15, .../480p12]
PossibleDirs == <<"480p15", "480p12">>

NoDirs == <<"missing", "missing">>

\* lines 191-202: the first candidate directory that exists and holds an
\* mp4 provides rendered_video
RECURSIVE RenderedVideoFrom(_, _)
RenderedVideoFrom(dirs, d) ==
    IF d > Len(PossibleDirs) THEN None
    ELSE IF dirs[d] = "mp4" THEN PossibleDirs[d]
    ELSE RenderedVideoFrom(dirs, d + 1)

RenderedVideo(dirs) == RenderedVideoFrom(dirs, 1)

\* what one external operation did; returncode, dirs and found (a clip was
\* found in one of the candidate output directories) are read for a renderer
\* run that completed
Outcome(kind, returncode, found) ==
    [kind |-> kind, returncode |-> returncode, found |-> found, dirs |-> NoDirs]

\* a renderer process that ended with exit code returncode and left the
\* candidate directories as dirs
ManimRun(returncode, dirs) ==
    [kind |-> "completed", returncode |-> returncode,
     found |-> RenderedVideo(dirs) # None, dirs |-> dirs]

\* subprocess.run(["manim", ...], timeout=RENDER_TIMEOUT): TimeoutExpired,
\* another exception, or a completed process with its exit code and output
ManimOutcomes ==
    {Outcome("timeout", 0, FALSE), Outcome("raised", 0, FALSE)}
    \cup {ManimRun(rc, <<d15, d12>>) : rc \in {0, 1}, d15 \in DirStates, d12 \in DirStates}

\* a plausible slip: a non-zero exit code alone makes the attempt a failure
RenderFailedOnExitCode(outcome) == ~outcome.found \/ outcome.returncode # 0

\* render_failed = not rendered_video or not rendered_video.exists()
RenderFailed(outcome) == ~outcome.found

\* a plausible slip: a timeout returns at once, on every attempt
TimeoutNeverRetries(attempt) == FALSE

\* except subprocess.TimeoutExpired: if attempt < MAX_RENDER_ATTEMPTS - 1: continue
TimeoutRetries(attempt) == attempt < MAX_RENDER_ATTEMPTS - 1

\* a plausible slip: the repair branch is also taken on the last attempt
MayRepairLastAttempt(attempt) == attempt < MAX_RENDER_ATTEMPTS

\* if render_failed and attempt < MAX_RENDER_ATTEMPTS - 1
MayRepair(attempt) == attempt < MAX_RENDER_ATTEMPTS - 1

\* the tuples the function returns
RenderFailedResult(n) == <<n, None, "Render failed">>

RenderedResult(n, gcs_upload_success) == <<n, ClipPath(n), None, gcs_upload_success>>

TimeoutResult(n) == <<n, None, "Timeout after repair attempt", FALSE>>

ExceptionResult(n) == <<n, None, "exception", FALSE>>

AllAttemptsResult(n) == <<n, None, "Failed after all attempts", FALSE>>

RdEntry(op, outcome) ==
    [op |-> op, attempt |-> rd_attempt, file |-> rd_current_file, outcome |-> outcome]

\* the call: lines 39-56, the code is cleaned and saved, the loop is entered
RdCall ==
    /\ rd_section_num \in 1..MaxSections
    /\ rd_pc = "loop"
    /\ rd_attempt = 0
    /\ rd_current_file = CodeFile(rd_section_num)
    /\ rd_trace = <<>>
    /\ rd_result = <<>>

\* continue: the next iteration, or the end of the loop and the last return
RdContinue(file, entries) ==
    /\ rd_trace' = rd_trace \o entries
    /\ rd_current_file' = file
    /\ rd_attempt' = rd_attempt + 1
    /\ IF rd_attempt + 1 < MAX_RENDER_ATTEMPTS
       THEN rd_pc' = "loop" /\ UNCHANGED rd_result
       ELSE rd_pc' = "returned" /\ rd_result' = AllAttemptsResult(rd_section_num)

RdReturn(result, entries) ==
    /\ rd_trace' = rd_trace \o entries
    /\ rd_result' = result
    /\ rd_pc' = "returned"
    /\ UNCHANGED <<rd_attempt, rd_current_file>>

\* main_video_generator.py, render_single_scene, lines 262-266: the unit
\* commits the volume after the rename and before it returns
CommitVolumeBeforeReturn ==
    <<RdEntry("volume_commit", Outcome("ok", 0, FALSE))>>

\* lines 410-412: the individual volume commit is skipped, nothing is done
\* between the uploads and the return
CommitVolume == <<>>

\* lines 320-415: the clip is renamed (an exception reaches except Exception),
\* a thumbnail is generated and clip and thumbnail are uploaded, both inside
\* their own try/except; the thumbnail is uploaded after the clip when it
\* exists
RdDeliver(manim, rename_ok, thumbnail, clip_upload, thumbnail_upload) ==
    IF ~rename_ok
    THEN RdReturn(ExceptionResult(rd_section_num),
                  <<manim, RdEntry("rename", Outcome("raised", 0, FALSE))>>)
    ELSE LET uploads ==
                IF clip_upload # "raised" /\ thumbnail = "ok"
                THEN <<RdEntry("upload_scene_video", Outcome(clip_upload, 0, FALSE)),
                       RdEntry("upload_scene_thumbnail",
                               Outcome(thumbnail_upload, 0, FALSE))>>
                ELSE <<RdEntry("upload_scene_video", Outcome(clip_upload, 0, FALSE))>>
         IN RdReturn(RenderedResult(rd_section_num, clip_upload = "ok"),
                     <<manim, RdEntry("rename", Outcome("ok", 0, FALSE)),
                       RdEntry("thumbnail", Outcome(thumbnail, 0, FALSE))>> \o uploads
                     \o CommitVolume)

\* lines 59-426: one iteration of for attempt in range(MAX_RENDER_ATTEMPTS)
RdAttempt ==
    /\ rd_pc = "loop"
    /\ UNCHANGED <<jobVars, fbVars, rd_section_num, npVars, apiVars, extVars>>
    /\ rd_attempt < MAX_RENDER_ATTEMPTS
    /\ \E outcome \in ManimOutcomes, repair_ok \in BOOLEAN, rename_ok \in BOOLEAN,
          thumbnail \in AdvisoryOutcomes, clip_upload \in AdvisoryOutcomes,
          thumbnail_upload \in AdvisoryOutcomes :
        LET manim == RdEntry("manim", outcome)
        IN  CASE outcome.kind = "timeout" ->
                    IF TimeoutRetries(rd_attempt)
                    THEN RdContinue(rd_current_file, <<manim>>)
                    ELSE RdReturn(TimeoutResult(rd_section_num), <<manim>>)
              [] outcome.kind = "raised" ->
                    RdReturn(ExceptionResult(rd_section_num), <<manim>>)
              [] outcome.kind = "completed" ->
                    IF RenderFailed(outcome) /\ MayRepair(rd_attempt)
                    THEN IF repair_ok
                         THEN RdContinue(RepairedFile(rd_section_num),
                                <<manim, RdEntry("repair_llm", Outcome("ok", 0, FALSE))>>)
                         ELSE RdReturn(ExceptionResult(rd_section_num),
                                <<manim, RdEntry("repair_llm", Outcome("raised", 0, FALSE))>>)
                    ELSE IF RenderFailed(outcome)
                    THEN RdReturn(RenderFailedResult(rd_section_num), <<manim>>)
                    ELSE RdDeliver(manim, rename_ok, thumbnail, clip_upload,
                                   thumbnail_upload)

NextRender == RdAttempt

\* ------------------------------------------------------------------------
\* normalize_prompt (services/cache_service.py, lines 17-48)
\* ------------------------------------------------------------------------

\* a string is a sequence of one-character strings

\* if len(normalized) > 200: normalized = normalized[:200]
TruncateLen == 200

\* longest tail of an input string after its run of "a"
MaxSuffix == 3

\* the characters of the inputs: lower-case letter, upper-case letter, digit,
\* whitespace, hyphen, punctuation
Chars == {"a", "B", "7", " ", "-", "!"}

Whitespace == {" "}

\* the characters re.sub(r'[^a-z0-9\s-]', '', ...) keeps
KeptChars == {"a", "b", "7"} \cup Whitespace \cup {"-"}

\* str.lower() on one character
LowerChar(c) == IF c = "B" THEN "b" ELSE c

Lower(s) == [i \in 1..Len(s) |-> LowerChar(s[i])]

\* str.strip(chars): leading and trailing characters of the set are removed
LStrip(s, chars) ==
    LET others == {i \in 1..Len(s) : s[i] \notin chars}
    IN  IF others = {} THEN <<>>
        ELSE SubSeq(s, CHOOSE i \in others : \A j \in others : i <= j, Len(s))

RStrip(s, chars) ==
    LET others == {i \in 1..Len(s) : s[i] \notin chars}
    IN  IF others = {} THEN <<>>
        ELSE SubSeq(s, 1, CHOOSE i \in others : \A j \in others : i >= j)

Strip(s, chars) == RStrip(LStrip(s, chars), chars)

\* re.sub(r'[^a-z0-9\s-]', '', s)
RemoveSpecial(s) == SelectSeq(s, LAMBDA c : c \in KeptChars)

\* re.sub(r'X+', '-', s) for the characters X of the set: every maximal run
\* becomes one hyphen
CollapseRuns(s, chars) ==
    LET marked == [i \in 1..Len(s) |->
                     IF s[i] \notin chars THEN s[i]
                     ELSE IF i = 1 \/ s[i - 1] \notin chars THEN "-"
                     ELSE ""]
    IN  SelectSeq(marked, LAMBDA c : c # "")

\* normalized[:200]
Truncate(s) == IF Len(s) > TruncateLen THEN SubSeq(s, 1, TruncateLen) ELSE s

\* normalize_prompt, statement by statement
NormalizePrompt(prompt) ==
    IF prompt = <<>> THEN <<>>
    ELSE LET lowered   == Strip(Lower(prompt), Whitespace)
             kept      == RemoveSpecial(lowered)
             hyphened  == CollapseRuns(kept, Whitespace)
             collapsed == CollapseRuns(hyphened, {"-"})
             trimmed   == Strip(collapsed, {"-"})
         IN  Truncate(trimmed)

\* the strings of at most n characters
RECURSIVE Strings(_)
Strings(n) ==
    IF n = 0 THEN {<<>>}
    ELSE LET shorter == Strings(n - 1)
         IN  shorter \cup {Append(s, c) : s \in shorter, c \in Chars}

\* the lengths of the leading run of "a" of the inputs: none, and around the
\* truncation length
PrefixLens == {0} \cup (TruncateLen - 2)..TruncateLen

\* the inputs: a run of "a" followed by a short tail
NormalizeInputs ==
    {[i \in 1..k |-> "a"] \o s : k \in PrefixLens, s \in Strings(MaxSuffix)}

NpOff ==
    /\ np_pc = "off"
    /\ np_input = <<>>
    /\ np_output = <<>>
    /\ np_again = <<>>

\* a call normalize_prompt(prompt)
NpCall ==
    /\ np_pc = "call"
    /\ np_input \in NormalizeInputs
    /\ np_output = <<>>
    /\ np_again = <<>>

\* the call returns
NpNormalize ==
    /\ np_pc = "call"
    /\ np_output' = NormalizePrompt(np_input)
    /\ np_pc' = "once"
    /\ UNCHANGED <<np_input, np_again>>
    /\ UNCHANGED <<jobVars, fbVars, rdVars, apiVars, extVars>>

\* the result is normalized again
NpNormalizeAgain ==
    /\ np_pc = "once"
    /\ np_again' = NormalizePrompt(np_output)
    /\ np_pc' = "twice"
    /\ UNCHANGED <<np_input, np_output>>
    /\ UNCHANGED <<jobVars, fbVars, rdVars, apiVars, extVars>>

NextNormalize ==
    \/ NpNormalize
    \/ NpNormalizeAgain

\* ------------------------------------------------------------------------
\* generate_video_api_logic (dev/api_logic.py) and CacheService
\* ------------------------------------------------------------------------

\* most requests one behaviour serves
MaxRequests == 2

\* most processing events the generation function yields before its
\* terminal event
MaxProcessing == 2

\* the texts a topic / prompt of the request items may carry
ApiPrompts == {<<>>, <<"!">>, <<"a">>, <<"B">>, <<"b", "!">>}

\* get_cache_key: f"{self.cache_prefix}/{normalized_prompt}.json"
CacheKey(normalized) == <<"cache/">> \o normalized \o <<".json">>

\* update.get(key, default)
Get(update, key, default) == IF key \in DOMAIN update THEN update[key] ELSE default

\* str(uuid.uuid4()) of the n-th job
Uuid(n) == "uuid-" \o ToString(n)

\* generator_logic.py, line 94: job_id = job_id or str(uuid.uuid4())
JobIdOr(job_id, n) == IF job_id = None THEN Uuid(n) ELSE job_id

\* the event of a job that runs under the id job
WithJob(update, job) == [update EXCEPT !.job_id = job]

\* api_logic.py, lines 41-45: job_id, clerk_user_id, mode (default "deep")
\* and voice_id of the item
RequestParams(mode, job_id, voice_id, clerk_user_id) ==
    [mode |-> mode, job_id |-> job_id, voice_id |-> voice_id,
     clerk_user_id |-> clerk_user_id]

AllParams ==
    {RequestParams(mode, job_id, voice_id, clerk_user_id) :
        mode \in {"deep", "fast"}, job_id \in {None, "client-job"},
        voice_id \in {None, "voice"}, clerk_user_id \in {None, "user"}}

\* the parameters of the requests served
ApiParams ==
    { RequestParams("deep", None, None, None),
      RequestParams("fast", "client-job", "voice", "user") }

NoEntry == [job_id |-> None, final_video_url |-> None, sections |-> <<>>,
            section_details |-> <<>>,
            metadata |-> [prompt |-> <<>>, num_sections |-> 0]]

\* a plausible slip: the entry is built without the sections
CacheDataNoSections(prompt, response) ==
    [job_id |-> response.job_id,
     final_video_url |-> response.final_video_url,
     sections |-> <<>>,
     section_details |-> <<>>,
     metadata |-> [prompt |-> prompt, num_sections |-> response.metadata.num_sections]]

\* cache_data as the job builds it beside response_data, its completed
\* event (lines 1242-1259 of generator_logic.py)
CacheData(prompt, response) ==
    [job_id |-> response.job_id,
     final_video_url |-> response.final_video_url,
     sections |-> response.sections,
     section_details |-> response.section_details,
     metadata |-> [prompt |-> prompt, num_sections |-> response.metadata.num_sections]]

\* store_cache, lines 139-140: created_at is added to a metadata without one
Stamp(data) ==
    IF "metadata" \in DOMAIN data /\ "created_at" \notin DOMAIN data.metadata
    THEN [data EXCEPT !.metadata =
             [k \in DOMAIN data.metadata \cup {"created_at"} |->
                 IF k = "created_at" THEN "utcnow" ELSE data.metadata[k]]]
    ELSE data

EmptyCache == [key \in {} |-> NoEntry]

\* blob.upload_from_string under the key
Put(entries, key, data) ==
    [k \in DOMAIN entries \cup {key} |-> IF k = key THEN data ELSE entries[k]]

\* what can go wrong in a lookup: the service cannot be constructed,
\* blob.exists raises, the download raises, the text is not JSON
LookupFaults == {"none", "ctor_raised", "exists_raised", "download_raised", "parse_error"}

\* what can go wrong in a write: the service cannot be constructed,
\* json.dumps raises, the upload raises, make_public raises
StoreFaults == {"none", "ctor_raised", "serialize_raised", "upload_raised",
                "make_public_raised"}

LookupResult(kind, entry) == [kind |-> kind, entry |-> entry]

\* a plausible slip: the exceptions of the read are not caught
GetCacheUnwrapped(entries, prompt, fault) ==
    IF NormalizePrompt(prompt) = <<>> THEN LookupResult("absent", NoEntry)
    ELSE IF fault # "none" THEN LookupResult("raised", NoEntry)
    ELSE IF CacheKey(NormalizePrompt(prompt)) \notin DOMAIN entries
         THEN LookupResult("absent", NoEntry)
    ELSE LookupResult("entry", entries[CacheKey(NormalizePrompt(prompt))])

\* a plausible slip: the raw prompt is used as the key
GetCacheRawPrompt(entries, prompt, fault) ==
    IF prompt = <<>> \/ fault # "none" \/ CacheKey(prompt) \notin DOMAIN entries
    THEN LookupResult("absent", NoEntry)
    ELSE LookupResult("entry", entries[CacheKey(prompt)])

\* CacheService.get_cache (cache_service.py, lines 80-117)
GetCache(entries, prompt, fault) ==
    LET normalized == NormalizePrompt(prompt)
    IN  IF normalized = <<>> THEN LookupResult("absent", NoEntry)
        ELSE IF fault = "exists_raised" THEN LookupResult("absent", NoEntry)
        ELSE IF CacheKey(normalized) \notin DOMAIN entries
             THEN LookupResult("absent", NoEntry)
        ELSE IF fault \in {"download_raised", "parse_error"}
             THEN LookupResult("absent", NoEntry)
        ELSE LookupResult("entry", entries[CacheKey(normalized)])

StoreResult(returned, entries) == [returned |-> returned, cache |-> entries]

\* a plausible slip: return True is placed after the try statement of the
\* upload
StoreCacheOptimistic(entries, prompt, data, fault) ==
    IF NormalizePrompt(prompt) = <<>> THEN StoreResult("false", entries)
    ELSE IF fault = "serialize_raised" THEN StoreResult("false", entries)
    ELSE IF fault = "upload_raised" THEN StoreResult("true", entries)
    ELSE StoreResult("true", Put(entries, CacheKey(NormalizePrompt(prompt)), Stamp(data)))

\* CacheService.store_cache (cache_service.py, lines 119-165): the value
\* returned and the entries stored afterwards
StoreCache(entries, prompt, data, fault) ==
    LET normalized == NormalizePrompt(prompt)
    IN  IF normalized = <<>> THEN StoreResult("false", entries)
        ELSE IF fault = "serialize_raised" THEN StoreResult("false", entries)
        ELSE IF fault = "upload_raised" THEN StoreResult("false", entries)
        ELSE IF fault = "make_public_raised"
             THEN StoreResult("false", Put(entries, CacheKey(normalized), Stamp(data)))
        ELSE StoreResult("true", Put(entries, CacheKey(normalized), Stamp(data)))

\* a plausible slip: the cache is written for every job
MayStoreCacheAlways(has_image) == TRUE

\* generator_logic.py, line 1236: if not image_context
MayStoreCache(has_image) == ~has_image

\* a plausible slip: the cache is read for every request
MayReadCacheAlways(has_image) == TRUE

\* api_logic.py, line 57: if not image_context
MayReadCache(has_image) == ~has_image

\* a plausible slip: the cached event carries the job_id of the request
CachedEventOfRequest(entry, job_id) ==
    [status |-> "completed", progress_percentage |-> 100,
     message |-> "Video generation completed successfully! (from cache)",
     job_id |-> job_id,
     sections |-> Get(entry, "sections", <<>>),
     section_details |-> Get(entry, "section_details", <<>>),
     final_video_url |-> Get(entry, "final_video_url", None),
     metadata |-> Get(entry, "metadata", <<>>),
     cached |-> TRUE]

\* api_logic.py, lines 69-79: cached_update, for the request's job_id
CachedEvent(entry, job_id) ==
    [status |-> "completed", progress_percentage |-> 100,
     message |-> "Video generation completed successfully! (from cache)",
     job_id |-> Get(entry, "job_id", job_id),
     sections |-> Get(entry, "sections", <<>>),
     section_details |-> Get(entry, "section_details", <<>>),
     final_video_url |-> Get(entry, "final_video_url", None),
     metadata |-> Get(entry, "metadata", <<>>),
     cached |-> TRUE]

\* a plausible slip: the mode is part of the text the cache is asked for
CachePromptWithMode(request) ==
    request.prompt \o (IF request.mode = "fast" THEN <<"7">> ELSE <<>>)

\* api_logic.py, line 61: cache_service.get_cache(prompt)
CachePrompt(request) == request.prompt

\* api_logic.py, lines 111-114: error_update
StreamingError == [status |-> "failed", error |-> "Streaming error: exception"]

\* f"data: {json.dumps(update)}\n\n"
Sse(update) == <<"data: ", update, "\n\n">>

\* a plausible slip: only terminal events are forwarded
StreamMessagesTerminalOnly(update) ==
    IF update.status = "processing" THEN <<>> ELSE <<Sse(update)>>

\* the messages event_stream yields for one update of the generator
StreamMessages(update) == <<Sse(update)>>

\* progress_percentage of the processing events, in the order of the stages
ProgressSteps == <<5, 15, 20, 45, 55, 65, 75, 85, 90>>

NoStore == [called |-> FALSE, fault |-> "none", returned |-> "not_called"]

\* a field of the request item: absent from it, or given with a text
Field(given, text) == [given |-> given, text |-> text]

Missing == Field(FALSE, <<>>)

\* the items served: topic and prompt missing or empty in every combination,
\* a prompt alone, and a topic together with a prompt
ApiItems ==
    {[topic |-> t, prompt |-> p] : t \in {Missing, Field(TRUE, <<>>)},
                                  p \in {Missing, Field(TRUE, <<>>)}}
    \cup {[topic |-> Missing, prompt |-> Field(TRUE, p)] : p \in ApiPrompts \ {<<>>}}
    \cup {[topic |-> Field(TRUE, <<"a">>), prompt |-> Field(TRUE, <<"B">>)]}

\* the truth value Python gives a field: None and "" are false
Truthy(field) == field.given /\ field.text # <<>>

\* api_logic.py, line 37: item.get("topic") or item.get("prompt")
TopicOrPrompt(item) == IF Truthy(item.topic) THEN item.topic ELSE item.prompt

\* a plausible slip: only a missing field is refused
PromptRequiredIfNone(field) == ~field.given

\* api_logic.py, line 38: if not prompt
PromptRequired(field) == ~Truthy(field)

\* api_logic.py, line 39: the result returned without a stream
ErrorResult == [kind |-> "error", success |-> FALSE, error |-> "Topic/prompt is required"]

\* api_logic.py, lines 82-93 and 117-128: StreamingResponse of a generator
StreamingResponse(kind) == [kind |-> kind, media_type |-> "text/event-stream"]

NoResponse == [kind |-> "none"]

NoItem == [topic |-> Missing, prompt_field |-> Missing, prompt |-> <<>>,
           image_context |-> FALSE, fault |-> "none", mode |-> "deep",
           job_id |-> None, voice_id |-> None, clerk_user_id |-> None]

\* the completed event of the job of prompt "B" that ran before the service
\* is followed, and the job
EarlierCompleted ==
    WithJob(CompletedEvent(<<SectionUrl(1)>>, <<SectionDetail(1)>>, FallbackFinalUrl),
            "earlier-job")

EarlierJob == [mode |-> "deep", completed |-> EarlierCompleted]

\* the writes of store_cache that leave an entry behind
StoreWrites(prompt, fault) ==
    NormalizePrompt(prompt) # <<>> /\ fault \in {"none", "make_public_raised"}

\* api_logic.py, lines 56-96: the cache check of a request that carries a
\* prompt: what the lookup gave and the messages of the cached stream
CacheAnswer(entries, request, fault) ==
    LET lookup ==
            IF ~MayReadCache(request.image_context)
            THEN LookupResult("not_called", NoEntry)
            ELSE IF fault = "ctor_raised" THEN LookupResult("ctor_raised", NoEntry)
            ELSE GetCache(entries, CachePrompt(request), fault)
    IN  [kind |-> lookup.kind,
         sse |-> IF lookup.kind = "entry"
                 THEN <<Sse(CachedEvent(lookup.entry, request.job_id))>>
                 ELSE <<>>]

\* no request is being followed
ApiOff ==
    /\ cache = EmptyCache
    /\ api_pc = "off"
    /\ api_count = 0
    /\ api_item = NoItem
    /\ api_response = NoResponse
    /\ api_lookup = None
    /\ api_sse = <<>>
    /\ gen_calls = 0
    /\ gen_events = <<>>
    /\ gen_raised = FALSE
    /\ api_store = NoStore
    /\ cache_before = EmptyCache
    /\ api_jobs = EmptyCache

\* the service starts with no entry, or with the entry a job of prompt "B"
\* stored
ApiStart ==
    /\ \E earlier \in BOOLEAN :
        /\ cache = IF earlier
                   THEN Put(EmptyCache, CacheKey(<<"b">>),
                            Stamp(CacheData(<<"B">>, EarlierCompleted)))
                   ELSE EmptyCache
        /\ api_jobs = IF earlier THEN Put(EmptyCache, CacheKey(<<"b">>), EarlierJob)
                      ELSE EmptyCache
    /\ api_pc = "idle"
    /\ api_count = 0
    /\ api_item = NoItem
    /\ api_response = NoResponse
    /\ api_lookup = None
    /\ api_sse = <<>>
    /\ gen_calls = 0
    /\ gen_events = <<>>
    /\ gen_raised = FALSE
    /\ api_store = NoStore
    /\ cache_before = cache

\* generate_video_api_logic, lines 37-128: the prompt is required; without
\* image_context the cache is looked up and a hit is answered by the stream
\* of the one cached event; otherwise the stream of the generation is
\* returned (nothing is generated before it is iterated)
ApiRequest ==
    /\ api_pc = "idle"
    /\ api_count < MaxRequests
    /\ \E item \in ApiItems, params \in ApiParams, has_image \in BOOLEAN,
          fault \in LookupFaults :
        LET field == TopicOrPrompt(item)
            prompt == field.text
            refused == PromptRequired(field)
            request == [topic |-> item.topic, prompt_field |-> item.prompt,
                        prompt |-> prompt, image_context |-> has_image,
                        fault |-> fault, mode |-> params.mode,
                        job_id |-> params.job_id, voice_id |-> params.voice_id,
                        clerk_user_id |-> params.clerk_user_id]
            lookup == IF refused THEN [kind |-> "not_called", sse |-> <<>>]
                      ELSE CacheAnswer(cache, request, fault)
        IN /\ (refused \/ ~MayReadCache(has_image)) => fault = "none"
           /\ (refused \/ has_image) => params = RequestParams("deep", None, None, None)
           /\ api_item' = request
           /\ api_lookup' = lookup.kind
           /\ IF refused
              THEN /\ api_response' = ErrorResult
                   /\ api_sse' = <<>>
                   /\ api_pc' = "idle"
              ELSE IF lookup.kind = "entry"
              THEN /\ api_response' = StreamingResponse("cached")
                   /\ api_sse' = lookup.sse
                   /\ api_pc' = "idle"
              ELSE /\ api_response' = StreamingResponse("stream")
                   /\ api_sse' = <<>>
                   /\ api_pc' = "streaming"
    /\ api_count' = api_count + 1
    /\ cache_before' = cache
    /\ gen_calls' = 0
    /\ gen_events' = <<>>
    /\ gen_raised' = FALSE
    /\ api_store' = NoStore
    /\ UNCHANGED <<cache, api_jobs>>
    /\ UNCHANGED <<jobVars, fbVars, rdVars, npVars, extVars>>

\* the id under which the job of the request runs
ApiJob == JobIdOr(api_item.job_id, api_count)

GenTerminalYielded ==
    /\ gen_events # <<>>
    /\ gen_events[Len(gen_events)].status \in {"completed", "failed"}

\* event_stream, lines 101-109: the generator yields update, which is sent
Forward(update) ==
    /\ gen_events' = Append(gen_events, update)
    /\ api_sse' = api_sse \o StreamMessages(update)
    /\ gen_calls' = 1
    /\ UNCHANGED <<api_pc, api_count, api_item, api_response, api_lookup, gen_raised,
                   cache_before>>
    /\ UNCHANGED <<jobVars, fbVars, rdVars, npVars, extVars>>

\* the generation function yields a processing event
StreamProcessing ==
    /\ api_pc = "streaming"
    /\ ~GenTerminalYielded
    /\ Len(gen_events) < MaxProcessing
    /\ Len(gen_events) < Len(ProgressSteps)
    /\ Forward(WithJob(ProcessingEvent(ProgressSteps[Len(gen_events) + 1]), ApiJob))
    /\ UNCHANGED <<cache, api_store, api_jobs>>

\* a plausible slip: cache_data is given the metadata dict of response_data
ResponseMetadataRef == "response_metadata"

\* generator_logic.py, lines 1246-1258: the metadata of cache_data is a dict
\* of its own, built by a second literal
CacheMetadataRef == "cache_metadata"

\* the event yielded at line 1266, after store_cache worked in place on the
\* cache_data it was given when stamped is TRUE: the dicts of the job before
\* the write, the dict cache_data["metadata"] refers to stamped, and
\* response_data read afterwards
YieldedAfterStore(response_data, cache_data, stamped) ==
    LET before == [response_metadata |-> response_data.metadata,
                   cache_metadata |-> cache_data.metadata]
        after == IF stamped
                 THEN [before EXCEPT ![CacheMetadataRef] =
                          Stamp([metadata |-> before[CacheMetadataRef]]).metadata]
                 ELSE before
    IN  [response_data EXCEPT !.metadata = after.response_metadata]

\* the generation function ends its job: the cache write of lines 1235-1264
\* of generator_logic.py (skipped with image_context, swallowed when it
\* fails), then the completed event
StreamCompleted ==
    /\ api_pc = "streaming"
    /\ ~GenTerminalYielded
    /\ \E fault \in StoreFaults :
        LET response_data ==
                WithJob(CompletedEvent(<<SectionUrl(1)>>, <<SectionDetail(1)>>,
                                       FallbackFinalUrl), ApiJob)
            cache_data == CacheData(api_item.prompt, response_data)
            stamped == /\ MayStoreCache(api_item.image_context)
                       /\ fault # "ctor_raised"
                       /\ NormalizePrompt(api_item.prompt) # <<>>
        IN  /\ IF ~MayStoreCache(api_item.image_context)
               THEN fault = "none" /\ UNCHANGED <<cache, api_store, api_jobs>>
               ELSE IF fault = "ctor_raised"
               THEN /\ api_store' = [called |-> FALSE, fault |-> fault,
                                     returned |-> "not_called"]
                    /\ UNCHANGED <<cache, api_jobs>>
               ELSE LET stored == StoreCache(cache, api_item.prompt, cache_data, fault)
                    IN /\ api_store' = [called |-> TRUE, fault |-> fault,
                                        returned |-> stored.returned]
                       /\ cache' = stored.cache
                       /\ api_jobs' =
                            IF StoreWrites(api_item.prompt, fault)
                            THEN Put(api_jobs, CacheKey(NormalizePrompt(api_item.prompt)),
                                     [mode |-> api_item.mode,
                                      completed |-> response_data])
                            ELSE api_jobs
            /\ Forward(YieldedAfterStore(response_data, cache_data, stamped))

\* the generation function ends with its failed event
StreamFailed ==
    /\ api_pc = "streaming"
    /\ ~GenTerminalYielded
    /\ Forward(WithJob(FailedEvent("generation failed"), ApiJob))
    /\ UNCHANGED <<cache, api_store, api_jobs>>

\* event_stream, lines 110-115: iterating the generator raises (at its
\* start, between two events or after the last one)
StreamRaised ==
    /\ api_pc = "streaming"
    /\ gen_raised' = TRUE
    /\ gen_calls' = 1
    /\ api_sse' = api_sse \o <<Sse(StreamingError)>>
    /\ api_pc' = "idle"
    /\ UNCHANGED <<cache, api_count, api_item, api_response, api_lookup, gen_events,
                   api_store, cache_before, api_jobs>>
    /\ UNCHANGED <<jobVars, fbVars, rdVars, npVars, extVars>>

\* the generator is exhausted after its terminal event: the stream ends
StreamEnd ==
    /\ api_pc = "streaming"
    /\ GenTerminalYielded
    /\ api_pc' = "idle"
    /\ UNCHANGED <<cache, api_count, api_item, api_response, api_lookup, api_sse,
                   gen_calls, gen_events, gen_raised, api_store, cache_before,
                   api_jobs>>
    /\ UNCHANGED <<jobVars, fbVars, rdVars, npVars, extVars>>

NextApi ==
    \/ ApiRequest
    \/ StreamProcessing
    \/ StreamCompleted
    \/ StreamFailed
    \/ StreamRaised
    \/ StreamEnd

\* ------------------------------------------------------------------------
\* main_cli_logic (cli_logic.py)
\* ------------------------------------------------------------------------

\* most updates the generator given to main_cli_logic yields
MaxCliEvents == 3

\* a processing update that names its stage
StageEvent(progress) ==
    [status |-> "processing", progress_percentage |-> progress, job_id |-> JobId,
     stage_name |-> "Planning", message |-> "Planning video structure..."]

\* a failed update without traceback
BareFailedEvent == [status |-> "failed", error |-> "Streaming error: exception"]

\* the updates the generate function may yield: those of the orchestrator
\* and a failed update that carries no traceback
CliUpdates ==
    { ProcessingEvent(ProgressSteps[1]),
      StageEvent(ProgressSteps[2]),
      CompletedEvent(<<SectionUrl(1)>>, <<SectionDetail(1)>>, FallbackFinalUrl),
      FailedEvent("generation failed"),
      BareFailedEvent }

\* what one print call writes
Printed(kind, value) == [kind |-> kind, value |-> value]

\* lines 25-30: the fields the loop body reads from the update; a missing
\* key reads as the empty text
CliError(update) == Get(update, "error", "")

\* a plausible slip: the key of the completed update is read
CliVideoUrlFinal(update) == Get(update, "final_video_url", "")

CliVideoUrl(update) == Get(update, "video_url", "")

\* lines 32-36: the error branch, which leaves the loop
PrintError(update) ==
    <<Printed("error", CliError(update))>>
    \o (IF "traceback" \in DOMAIN update
        THEN <<Printed("traceback", update["traceback"])>> ELSE <<>>)

\* lines 38-50: the body for an update without error
PrintUpdate(update) ==
    (IF Get(update, "stage_name", "") # ""
     THEN <<Printed("stage", update["stage_name"])>> ELSE <<>>)
    \o <<Printed("progress", ToString(Get(update, "progress_percentage", 0)))>>
    \o (IF CliVideoUrl(update) # ""
        THEN <<Printed("url", CliVideoUrl(update))>>
             \o (IF "metadata" \in DOMAIN update
                 THEN <<Printed("metadata", ToString(update["metadata"].num_sections))>>
                 ELSE <<>>)
        ELSE <<>>)

\* line 52
Footer == Printed("footer", "Process completed!")

\* lines 19-21
Header == Printed("header", "Starting educational video generation")

CliOff ==
    /\ cli_pc = "off"
    /\ cli_stream = <<>>
    /\ cli_out = <<>>

\* main_cli_logic is called: the header is printed and the loop entered
CliCall ==
    /\ cli_pc = "iterating"
    /\ cli_stream = <<>>
    /\ cli_out = <<Header>>

\* one iteration of the loop of lines 23-50: the generator yields an update;
\* an update with an error is printed and ends the loop, after which the
\* footer is printed and the function returns
CliUpdate ==
    /\ cli_pc = "iterating"
    /\ Len(cli_stream) < MaxCliEvents
    /\ \E update \in CliUpdates :
        /\ cli_stream' = Append(cli_stream, update)
        /\ IF CliError(update) # ""
           THEN /\ cli_out' = cli_out \o PrintError(update) \o <<Footer>>
                /\ cli_pc' = "returned"
           ELSE /\ cli_out' = cli_out \o PrintUpdate(update)
                /\ cli_pc' = "iterating"
    /\ UNCHANGED notCli

\* the generator is exhausted: the footer is printed, the function returns
CliExhausted ==
    /\ cli_pc = "iterating"
    /\ cli_out' = Append(cli_out, Footer)
    /\ cli_pc' = "returned"
    /\ UNCHANGED cli_stream
    /\ UNCHANGED notCli

\* iterating the generator raises: nothing in main_cli_logic catches the
\* exception, which leaves the function
CliRaised ==
    /\ cli_pc = "iterating"
    /\ cli_pc' = "raised"
    /\ UNCHANGED <<cli_stream, cli_out>>
    /\ UNCHANGED notCli

NextCli ==
    \/ CliUpdate
    \/ CliExhausted
    \/ CliRaised

\* ------------------------------------------------------------------------
\* PreGeneratedAudioService (services/tts/pregenerated.py)
\* ------------------------------------------------------------------------

\* most generate_from_text calls made on one service
MaxPgCalls == 3

NoService == [fallback_to_elevenlabs |-> FALSE, audio_exists |-> FALSE,
              fallback_service |-> FALSE]

\* a plausible repair: the fallback service is kept whenever it is enabled
FallbackServiceAlways(fallback_to_elevenlabs, audio_exists) ==
    fallback_to_elevenlabs

\* lines 33-48: the fallback service is constructed only when the file is
\* missing at construction and the fallback is enabled; the field is None
\* when the file exists
FallbackService(fallback_to_elevenlabs, audio_exists) ==
    ~audio_exists /\ fallback_to_elevenlabs

\* _get_audio_duration: the probed duration, or the estimate of 5 seconds
\* when the probe fails
AudioDuration(probe) == IF probe = "ok" THEN "probed" ELSE "5.0"

\* lines 95-104: the metadata that references the file
AudioMetadata(probe) ==
    [kind |-> "metadata", service |-> "pregenerated_audio", audio_path |-> "audio_file_path",
     word_timings |-> <<>>, duration |-> AudioDuration(probe)]

\* line 80: what the fallback service returned
Delegated == [kind |-> "delegated", service |-> "elevenlabs"]

\* line 82
NotFound == [kind |-> "FileNotFoundError"]

\* generate_from_text (lines 62-104) on the service, the file existing or
\* not at the call
GenerateFromText(service, exists, probe) ==
    IF ~exists
    THEN IF service.fallback_service THEN Delegated ELSE NotFound
    ELSE AudioMetadata(probe)

PgOff ==
    /\ pg_pc = "off"
    /\ pg_file = FALSE
    /\ pg_service = NoService
    /\ pg_results = <<>>

\* before the construction: the file exists or not
PgStart ==
    /\ pg_pc = "new"
    /\ pg_file \in BOOLEAN
    /\ pg_service = NoService
    /\ pg_results = <<>>

\* __init__ (lines 18-60)
PgConstruct ==
    /\ pg_pc = "new"
    /\ \E fallback_to_elevenlabs \in BOOLEAN :
        IF ~pg_file /\ ~fallback_to_elevenlabs
        THEN /\ pg_pc' = "ctor_raised"
             /\ UNCHANGED pg_service
        ELSE /\ pg_pc' = "ready"
             /\ pg_service' = [fallback_to_elevenlabs |-> fallback_to_elevenlabs,
                               audio_exists |-> pg_file,
                               fallback_service |->
                                   FallbackService(fallback_to_elevenlabs, pg_file)]
    /\ UNCHANGED <<pg_file, pg_results>>
    /\ UNCHANGED notPg

\* the audio file is written (by the TTS stage or a later run)
PgFileAppears ==
    /\ pg_pc \in {"new", "ready"}
    /\ ~pg_file
    /\ pg_file' = TRUE
    /\ UNCHANGED <<pg_pc, pg_service, pg_results>>
    /\ UNCHANGED notPg

\* the audio file is removed
PgFileDisappears ==
    /\ pg_pc \in {"new", "ready"}
    /\ pg_file
    /\ pg_file' = FALSE
    /\ UNCHANGED <<pg_pc, pg_service, pg_results>>
    /\ UNCHANGED notPg

\* one call of generate_from_text; its result is recorded with the
\* existence of the file at the call
PgGenerate ==
    /\ pg_pc = "ready"
    /\ Len(pg_results) < MaxPgCalls
    /\ \E probe \in {"ok", "failed"} :
        /\ pg_file \/ probe = "ok"
        /\ pg_results' = Append(pg_results,
               [exists |-> pg_file,
                result |-> GenerateFromText(pg_service, pg_file, probe)])
    /\ UNCHANGED <<pg_pc, pg_file, pg_service>>
    /\ UNCHANGED notPg

NextPregen ==
    \/ PgConstruct
    \/ PgFileAppears
    \/ PgFileDisappears
    \/ PgGenerate

\* ------------------------------------------------------------------------
\* ElevenLabsTimedService._extract_word_timings (services/tts/elevenlabs.py)
\* ------------------------------------------------------------------------

\* longest characters list
MaxChars == 4

\* the characters of the alignment: letters, a space and a line feed
WtChars == {"H", "i", " ", "\n"}

\* line 150: char in [' ', '\n', '\t']
WtWhitespace == {" ", "\n", "\t"}

CharLists == UNION {[1..n -> WtChars] : n \in 0..MaxChars}

\* the parallel time arrays, strictly increasing: the character of Python
\* index i is spoken from 10 * i to 10 * i + 5
StartTimes(characters) == [k \in 1..Len(characters) |-> 10 * (k - 1)]

EndTimes(characters) == [k \in 1..Len(characters) |-> 10 * (k - 1) + 5]

\* lines 140-146 and 162-168: a fresh current_word
NewWord(start, index) ==
    [text |-> <<>>, start |-> start, end |-> 0, char_start_index |-> index,
     char_end_index |-> index]

\* lines 158-160: the index of the next character that is no whitespace, or
\* len(characters)
NextCharIdx(characters, i) ==
    LET later == {j \in (i + 1)..(Len(characters) - 1) : characters[j + 1] \notin WtWhitespace}
    IN  IF later = {} THEN Len(characters)
        ELSE CHOOSE j \in later : \A k \in later : j <= k

\* the loop of lines 149-172 from Python index i on, then the flush of
\* lines 175-177; indexes are those of Python (from 0)
RECURSIVE WordTimingsFrom(_, _, _, _, _, _)
WordTimingsFrom(characters, start_times, end_times, i, words, current_word) ==
    IF i = Len(characters)
    THEN IF Strip(current_word.text, WtWhitespace) # <<>>
         THEN Append(words, [current_word EXCEPT !.end = end_times[Len(end_times)]])
         ELSE words
    ELSE IF characters[i + 1] \in WtWhitespace
    THEN LET flush == Strip(current_word.text, WtWhitespace) # <<>>
             ended == [current_word EXCEPT
                          !.end = IF i > 0 THEN end_times[i] ELSE start_times[i + 1],
                          !.char_end_index = i - 1]
             kept == IF flush THEN ended ELSE current_word
             next_char_idx == NextCharIdx(characters, i)
         IN  WordTimingsFrom(characters, start_times, end_times, i + 1,
                 IF flush THEN Append(words, ended) ELSE words,
                 IF next_char_idx < Len(characters)
                 THEN NewWord(IF next_char_idx < Len(start_times)
                              THEN start_times[next_char_idx + 1] ELSE 0,
                              next_char_idx)
                 ELSE kept)
    ELSE WordTimingsFrom(characters, start_times, end_times, i + 1, words,
             [current_word EXCEPT !.text = Append(@, characters[i + 1]),
                                  !.char_end_index = i])

\* _extract_word_timings (lines 123-179)
ExtractWordTimings(characters, start_times, end_times) ==
    IF characters = <<>> \/ start_times = <<>> \/ end_times = <<>>
    THEN <<>>
    ELSE WordTimingsFrom(characters, start_times, end_times, 0, <<>>,
                         NewWord(start_times[1], 0))

WtOff ==
    /\ wt_pc = "off"
    /\ wt_characters = <<>>
    /\ wt_words = <<>>

\* the function is called with a characters list
WtCall ==
    /\ wt_pc = "called"
    /\ wt_characters \in CharLists
    /\ wt_words = <<>>

\* the function returns its list
WtExtract ==
    /\ wt_pc = "called"
    /\ wt_words' = ExtractWordTimings(wt_characters, StartTimes(wt_characters),
                                      EndTimes(wt_characters))
    /\ wt_pc' = "returned"
    /\ UNCHANGED wt_characters
    /\ UNCHANGED notWt

NextWordTimings == WtExtract

\* ------------------------------------------------------------------------
\* apply_all_manual_fixes (services/code_utils.py)
\* ------------------------------------------------------------------------
\* The code is a sequence of lines and a line a sequence of tokens: pieces
\* of text that no pattern of the fixes straddles.

\* most lines of the code given
MaxLines == 3

ManimImport == <<"from manim import *">>

VoiceoverImport == <<"from manim_voiceover import VoiceoverScene">>

ElevenLabsImport == <<"from manim_voiceover.services.elevenlabs import ElevenLabsService">>

ServiceComment == <<"        # Initialize ElevenLabs speech service for audio narration">>

ServiceInit == <<"        self.set_speech_service(ElevenLabsService())">>

\* the lines the given code is made of
SourceLines ==
    { <<"class A", "(Scene)", ":">>,
      <<"class B", "(VoiceoverScene)", ":">>,
      <<"class A", "(Scene)", ": pass; class B", "(VoiceoverScene)", ": pass">>,
      <<"class A", "(Scene)", ": pass; class C", "(Scene)", ": pass">>,
      ManimImport,
      <<"    def construct(self):">>,
      <<"        self.wait()">>,
      <<"        # comment">>,
      <<"        self.set_camera_orientation(phi=1)">>,
      <<"from manim_voiceover.helper import create_voiceover_tracker">>,
      <<"        arrow", ".add_tip(width=0.2)">> }

SourceCodes == UNION {[1..n -> SourceLines] : n \in 0..MaxLines}

\* the patterns of the fixes that occur in a token
Contained(token) ==
    CASE token = "(Scene)" -> {"(Scene)"}
      [] token = "(VoiceoverScene)" -> {"(VoiceoverScene)", "VoiceoverScene"}
      [] token = "from manim_voiceover import VoiceoverScene" ->
            {"VoiceoverScene", "from manim_voiceover import VoiceoverScene"}
      [] token = "    def construct(self):" -> {"def construct(self):"}
      [] token = "        self.set_speech_service(ElevenLabsService())" ->
            {"set_speech_service"}
      [] token = "        self.set_camera_orientation(phi=1)" ->
            {"self.set_camera_orientation"}
      [] token = "from manim_voiceover.helper import create_voiceover_tracker" ->
            {"from manim_voiceover.helper import create_voiceover_tracker",
             "create_voiceover_tracker"}
      [] token = ".add_tip(width=0.2)" -> {".add_tip(", "width="}
      [] token = ".add_tip()" -> {".add_tip("}
      [] OTHER -> {}

\* the prefixes the fixes test on line.strip()
Starts(token) ==
    CASE token = "from manim import *" -> {"from manim import"}
      [] token = "        self.set_camera_orientation(phi=1)" ->
            {"self.set_camera_orientation"}
      [] token = "        # comment" -> {"#"}
      [] token = "        # Initialize ElevenLabs speech service for audio narration" -> {"#"}
      [] OTHER -> {}

\* pattern in line
LineHas(line, pattern) == \E i \in DOMAIN line : pattern \in Contained(line[i])

\* pattern in code (no pattern holds a line feed)
CodeHas(code, pattern) == \E l \in DOMAIN code : LineHas(code[l], pattern)

\* line.strip().startswith(prefix)
StartsWith(line, prefix) == line # <<>> /\ prefix \in Starts(line[1])

\* line.replace(old, new) for a pattern that is a token
ReplaceToken(line, old, new) ==
    [i \in DOMAIN line |-> IF line[i] = old THEN new ELSE line[i]]

InsertAfter(code, l, lines) == SubSeq(code, 1, l) \o lines \o SubSeq(code, l + 1, Len(code))

\* remove_incorrect_imports (lines 317-354); no line of SourceLines holds
\* an import from manim_voiceover.services.tts
RemoveIncorrectImports(code) ==
    SelectSeq(code, LAMBDA line : ~LineHas(line, "create_voiceover_tracker"))

\* remove_camera_orientation_calls (lines 153-173)
RemoveCameraOrientationCalls(code) ==
    SelectSeq(code, LAMBDA line : ~StartsWith(line, "self.set_camera_orientation"))

\* a plausible repair: every line that holds (Scene) is rewritten
FixSceneInheritanceEveryLine(code) ==
    [l \in DOMAIN code |-> ReplaceToken(code[l], "(Scene)", "(VoiceoverScene)")]

\* fix_scene_inheritance (lines 176-205): a line is rewritten when it holds
\* (Scene) and does not hold (VoiceoverScene)
FixSceneInheritance(code) ==
    [l \in DOMAIN code |->
        IF LineHas(code[l], "(Scene)") /\ ~LineHas(code[l], "(VoiceoverScene)")
        THEN ReplaceToken(code[l], "(Scene)", "(VoiceoverScene)")
        ELSE code[l]]

\* ensure_voiceover_imports (lines 208-238)
EnsureVoiceoverImports(code) ==
    IF ~CodeHas(code, "VoiceoverScene") THEN code
    ELSE IF CodeHas(code, "from manim_voiceover import VoiceoverScene") THEN code
    ELSE LET imports == {l \in DOMAIN code : StartsWith(code[l], "from manim import")}
         IN  IF imports = {} THEN code
             ELSE InsertAfter(code, CHOOSE l \in imports : \A k \in imports : l <= k,
                              <<VoiceoverImport, ElevenLabsImport>>)

\* remove_incompatible_methods (lines 278-314)
IncompatiblePatterns ==
    {"self.set_camera_orientation", ".begin_ambient_camera_rotation",
     ".stop_ambient_camera_rotation", ".move_camera", "self.check_overlap",
     ".check_overlap", ".bounding_box"}

RemoveIncompatibleMethods(code) ==
    SelectSeq(code, LAMBDA line : \A pattern \in IncompatiblePatterns :
                                      ~LineHas(line, pattern))

\* fix_color_constants (lines 399-413) returns its argument
FixColorConstants(code) == code

\* fix_add_tip_parameters (lines 468-506)
FixAddTipParameters(code) ==
    [l \in DOMAIN code |->
        IF /\ LineHas(code[l], ".add_tip(")
           /\ (LineHas(code[l], "width=") \/ LineHas(code[l], "length="))
        THEN ReplaceToken(code[l], ".add_tip(width=0.2)", ".add_tip()")
        ELSE code[l]]

\* ensure_speech_service_init (lines 241-275): the two lines are added after
\* the first line, below a construct line, that is neither empty, a comment
\* nor a construct line
EnsureSpeechServiceInit(code) ==
    IF ~CodeHas(code, "VoiceoverScene") THEN code
    ELSE IF CodeHas(code, "set_speech_service") THEN code
    ELSE LET places == {l \in DOMAIN code :
                           /\ ~LineHas(code[l], "def construct(self):")
                           /\ code[l] # <<>>
                           /\ ~StartsWith(code[l], "#")
                           /\ \E c \in 1..(l - 1) : LineHas(code[c], "def construct(self):")}
         IN  IF places = {} THEN code
             ELSE InsertAfter(code, CHOOSE l \in places : \A k \in places : l <= k,
                              <<ServiceComment, ServiceInit>>)

\* add_basic_voiceover_if_missing (lines 579-601) returns its argument on
\* every path
AddBasicVoiceoverIfMissing(code) == code

\* apply_all_manual_fixes (lines 625-650)
ApplyAllManualFixes(code) ==
    AddBasicVoiceoverIfMissing(
     EnsureSpeechServiceInit(
      FixAddTipParameters(
       FixColorConstants(
        RemoveIncompatibleMethods(
         EnsureVoiceoverImports(
          FixSceneInheritance(
           RemoveCameraOrientationCalls(
            RemoveIncorrectImports(code)))))))))

MfOff ==
    /\ mf_pc = "off"
    /\ mf_code = <<>>
    /\ mf_once = <<>>
    /\ mf_twice = <<>>

MfCall ==
    /\ mf_pc = "called"
    /\ mf_code \in SourceCodes
    /\ mf_once = <<>>
    /\ mf_twice = <<>>

\* the fixes are applied to the code
MfApply ==
    /\ mf_pc = "called"
    /\ mf_once' = ApplyAllManualFixes(mf_code)
    /\ mf_pc' = "applied"
    /\ UNCHANGED <<mf_code, mf_twice>>
    /\ UNCHANGED notMf

\* the fixes are applied to their own output
MfApplyAgain ==
    /\ mf_pc = "applied"
    /\ mf_twice' = ApplyAllManualFixes(mf_once)
    /\ mf_pc' = "applied_again"
    /\ UNCHANGED <<mf_code, mf_once>>
    /\ UNCHANGED notMf

NextManualFixes ==
    \/ MfApply
    \/ MfApplyAgain

\* ------------------------------------------------------------------------
\* clean_manim_code (services/code_utils.py)
\* ------------------------------------------------------------------------
\* The code is its import lines and its speech-service constructor calls, a
\* call being the name of the service and the list of its arguments.

\* most arguments of a constructor call of the given code
MaxArgs == 2

\* voice_id="{selected_voice_id}"
SelectedVoice == [key |-> "voice_id", value |-> "selected_voice_id"]

NoTranscription == [key |-> "transcription_model", value |-> "None"]

\* the arguments the calls of the given code are made of
SourceArgs ==
    { SelectedVoice,
      [key |-> "voice_id", value |-> "other_voice"],
      NoTranscription,
      [key |-> "transcription_model", value |-> "base"],
      [key |-> "voice_name", value |-> "Adam"],
      [key |-> "model", value |-> "eleven_multilingual_v2"] }

Call(service, args) == [service |-> service, args |-> args]

\* ElevenLabsService(voice_id="{selected_voice_id}", transcription_model=None)
SelectedCall == Call("ElevenLabsService", <<SelectedVoice, NoTranscription>>)

SourceCalls ==
    {Call("ElevenLabsService", args) :
        args \in UNION {[1..n -> SourceArgs] : n \in 0..MaxArgs}}
    \cup {Call("GTTSService", <<>>), Call("RecorderService", <<>>)}

GttsImport == "from manim_voiceover.services.gtts import GTTSService"

RecorderImport == "from manim_voiceover.services.recorder import RecorderService"

\* the import lines of the given code
SourceImports ==
    { <<>>,
      <<"from manim import *">>,
      <<"from manim import *", "from manim_voiceover import VoiceoverScene">>,
      <<"from manim import *", GttsImport>>,
      <<"from manim import *", RecorderImport>>,
      <<"from manim import *", ElevenLabsImport[1]>> }

\* the codes given: no call, one call, or a call followed by a plain one
CleanInputs ==
    {[imports |-> imports, calls |-> code_calls] :
        imports \in SourceImports,
        code_calls \in {<<>>} \cup {<<call>> : call \in SourceCalls}
                  \cup {<<call, Call("ElevenLabsService", <<>>)>> : call \in SourceCalls}}

Tail2(args) == SubSeq(args, 2, Len(args))

\* the first argument of an ElevenLabsService call has the key
FirstIs(call, key) ==
    /\ call.service = "ElevenLabsService"
    /\ call.args # <<>>
    /\ call.args[1].key = key

\* Pattern 1 (lines 37-41): a leading transcription_model argument is removed
Pattern1(call) ==
    IF FirstIs(call, "transcription_model") THEN Call(call.service, Tail2(call.args))
    ELSE call

\* a plausible repair of Pattern 2: every voice_id and transcription_model
\* argument is dropped and the selected pair put first
Pattern2Everywhere(call) ==
    IF call.service = "ElevenLabsService"
    THEN Call(call.service,
              <<SelectedVoice, NoTranscription>>
              \o SelectSeq(call.args, LAMBDA arg : arg.key = "model"))
    ELSE call

\* Pattern 2 (lines 45-49): a leading voice_id argument gets the selected id
Pattern2(call) ==
    IF FirstIs(call, "voice_id")
    THEN Call(call.service, <<SelectedVoice>> \o Tail2(call.args))
    ELSE call

\* Pattern 3 (lines 52-56): a leading voice_name argument is removed
Pattern3(call) ==
    IF FirstIs(call, "voice_name") THEN Call(call.service, Tail2(call.args))
    ELSE call

\* Pattern 4 (lines 61-65): an empty argument list gets the selected pair
Pattern4(call) ==
    IF call.service = "ElevenLabsService" /\ call.args = <<>> THEN SelectedCall
    ELSE call

\* Pattern 4b (lines 69-73): a call of the selected voice alone gets
\* transcription_model=None
Pattern4b(call) ==
    IF call.service = "ElevenLabsService" /\ call.args = <<SelectedVoice>>
    THEN SelectedCall
    ELSE call

\* Pattern 4c (lines 76-80): a model argument that follows the selected
\* voice is removed
Pattern4c(call) ==
    IF /\ call.service = "ElevenLabsService"
       /\ Len(call.args) >= 2
       /\ call.args[1] = SelectedVoice
       /\ call.args[2].key = "model"
    THEN Call(call.service, <<SelectedVoice>> \o SubSeq(call.args, 3, Len(call.args)))
    ELSE call

\* Patterns 5 and 7 (lines 83-87, 99-103): GTTSService(...) and
\* RecorderService(...) become the selected call
Pattern5(call) == IF call.service = "GTTSService" THEN SelectedCall ELSE call

Pattern7(call) == IF call.service = "RecorderService" THEN SelectedCall ELSE call

\* Pattern 6 (lines 90-94) and the removal of lines 106-110, on the imports
FixImports(imports) ==
    LET renamed == [i \in DOMAIN imports |->
                       IF imports[i] = GttsImport THEN ElevenLabsImport[1] ELSE imports[i]]
    IN  SelectSeq(renamed, LAMBDA line : line # RecorderImport)

\* remove_transcription_params (lines 18-112): each substitution is applied
\* once to every call, in the order of the function
RemoveTranscriptionParams(code) ==
    [imports |-> FixImports(code.imports),
     calls |-> [i \in DOMAIN code.calls |->
                   Pattern7(Pattern5(Pattern4c(Pattern4b(Pattern4(Pattern3(
                       Pattern2(Pattern1(code.calls[i]))))))))]]

\* the import line is one of manim_voiceover
FromVoiceover(line) ==
    line \in {"from manim_voiceover import VoiceoverScene", GttsImport, RecorderImport,
              ElevenLabsImport[1]}

\* ensure_elevenlabs_import (lines 115-146)
EnsureElevenLabsImport(code) ==
    LET imports == code.imports
        has == {i \in DOMAIN imports : imports[i] = ElevenLabsImport[1]}
        voiceover == {i \in DOMAIN imports : FromVoiceover(imports[i])}
        manim == {i \in DOMAIN imports : imports[i] = "from manim import *"}
    IN  IF has # {} THEN code
        ELSE IF voiceover # {}
        THEN [code EXCEPT !.imports =
                 InsertAfter(imports, CHOOSE i \in voiceover : \A k \in voiceover : i <= k,
                             ElevenLabsImport)]
        ELSE IF manim # {}
        THEN [code EXCEPT !.imports =
                 InsertAfter(imports, CHOOSE i \in manim : \A k \in manim : i <= k,
                             <<"from manim_voiceover import VoiceoverScene",
                               ElevenLabsImport[1]>>)]
        ELSE code

\* clean_manim_code (lines 607-622)
CleanManimCode(code) == EnsureElevenLabsImport(RemoveTranscriptionParams(code))

NoCode == [imports |-> <<>>, calls |-> <<>>]

CmOff ==
    /\ cm_pc = "off"
    /\ cm_code = NoCode
    /\ cm_out = NoCode

CmCall ==
    /\ cm_pc = "called"
    /\ cm_code \in CleanInputs
    /\ cm_out = NoCode

CmClean ==
    /\ cm_pc = "called"
    /\ cm_out' = CleanManimCode(cm_code)
    /\ cm_pc' = "cleaned"
    /\ UNCHANGED cm_code
    /\ UNCHANGED notCm

NextCleanCode == CmClean

\* ------------------------------------------------------------------------
\* The render units of one job (renderer.py), running concurrently
\* ------------------------------------------------------------------------
\* Every section of the job has its unit; the units share the working
\* directory /outputs/{job_id} and each step of a unit is one access to it.

Units == 1..MaxSections

\* work_dir / name
WorkPath(name) == "/outputs/" \o JobId \o "/" \o name

\* a plausible repair: one file per section
EnvFilePerSection(n) == WorkPath(".env_" \o ToString(n))

\* line 93: env_file = work_dir / ".env"
EnvFile(n) == WorkPath(".env")

\* lines 191-194: work_dir / "videos" / current_file.stem / "480p15" / *.mp4
RenderedPath(file) == WorkPath("videos/" \o file \o "/480p15/scene.mp4")

\* line 354: work_dir / f"section_{section_num}_thumbnail.png"
ThumbnailFile(n) == WorkPath("section_" \o ToString(n) \o "_thumbnail.png")

UnOff ==
    /\ un_key = FALSE
    /\ un_pc = [u \in Units |-> "off"]
    /\ un_attempt = [u \in Units |-> 0]
    /\ un_current_file = [u \in Units |-> None]
    /\ un_files = {}
    /\ un_written = [u \in Units |-> {}]

\* generator_logic.py line 461: the units are spawned on one work_dir
UnSpawned ==
    /\ un_key \in BOOLEAN
    /\ un_pc = [u \in Units |-> "spawned"]
    /\ un_attempt = [u \in Units |-> 0]
    /\ un_current_file = [u \in Units |-> None]
    /\ un_files = {}
    /\ un_written = [u \in Units |-> {}]

\* the unit creates or writes the path
UnWrite(u, path) ==
    /\ un_files' = un_files \cup {path}
    /\ un_written' = [un_written EXCEPT ![u] = @ \cup {path}]

\* lines 50-56: the cleaned code is saved, the loop is entered
UnSaveCode(u) ==
    /\ un_pc[u] = "spawned"
    /\ UnWrite(u, WorkPath(CodeFile(u)))
    /\ un_current_file' = [un_current_file EXCEPT ![u] = CodeFile(u)]
    /\ un_pc' = [un_pc EXCEPT ![u] = "loop"]
    /\ UNCHANGED <<un_key, un_attempt>>
    /\ UNCHANGED notUn

\* lines 59, 78-94: the next iteration; with a key, env_file.exists() is read
UnCheckEnv(u) ==
    /\ un_pc[u] = "loop"
    /\ un_pc' = [un_pc EXCEPT ![u] =
           IF un_key /\ EnvFile(u) \notin un_files THEN "write_env" ELSE "manim"]
    /\ UNCHANGED <<un_key, un_attempt, un_current_file, un_files, un_written>>
    /\ UNCHANGED notUn

\* line 95: env_file.write_text(...)
UnWriteEnv(u) ==
    /\ un_pc[u] = "write_env"
    /\ UnWrite(u, EnvFile(u))
    /\ un_pc' = [un_pc EXCEPT ![u] = "manim"]
    /\ UNCHANGED <<un_key, un_attempt, un_current_file>>
    /\ UNCHANGED notUn

\* the loop goes on, or ends with the last return
UnContinue(u, file) ==
    /\ un_current_file' = [un_current_file EXCEPT ![u] = file]
    /\ un_attempt' = [un_attempt EXCEPT ![u] = @ + 1]
    /\ un_pc' = [un_pc EXCEPT ![u] =
           IF un_attempt[u] + 1 < MAX_RENDER_ATTEMPTS THEN "loop" ELSE "returned"]

\* lines 98-318: the renderer runs on current_file with work_dir as its media
\* directory; a failed render is repaired (the repaired code is written) or
\* returned, a timeout retried or returned
UnManim(u) ==
    /\ un_pc[u] = "manim"
    /\ \E outcome \in {"mp4", "no_video", "timeout", "raised"}, repair_ok \in BOOLEAN :
        CASE outcome = "mp4" ->
                /\ UnWrite(u, RenderedPath(un_current_file[u]))
                /\ un_pc' = [un_pc EXCEPT ![u] = "rename"]
                /\ UNCHANGED <<un_attempt, un_current_file>>
          [] outcome = "no_video" /\ MayRepair(un_attempt[u]) /\ repair_ok ->
                /\ UnWrite(u, WorkPath(RepairedFile(u)))
                /\ UnContinue(u, RepairedFile(u))
          [] outcome = "timeout" /\ TimeoutRetries(un_attempt[u]) ->
                /\ UnContinue(u, un_current_file[u])
                /\ UNCHANGED <<un_files, un_written>>
          [] OTHER ->
                /\ un_pc' = [un_pc EXCEPT ![u] = "returned"]
                /\ UNCHANGED <<un_attempt, un_current_file, un_files, un_written>>
    /\ UNCHANGED un_key
    /\ UNCHANGED notUn

\* lines 320-322: rendered_video.rename(section_video)
UnRename(u) ==
    /\ un_pc[u] = "rename"
    /\ \E rename_ok \in BOOLEAN :
        IF rename_ok
        THEN /\ un_files' = (un_files \ {RenderedPath(un_current_file[u])})
                                \cup {ClipPath(u)}
             /\ un_written' = [un_written EXCEPT ![u] = @ \cup {ClipPath(u)}]
             /\ un_pc' = [un_pc EXCEPT ![u] = "thumbnail"]
        ELSE /\ un_pc' = [un_pc EXCEPT ![u] = "returned"]
             /\ UNCHANGED <<un_files, un_written>>
    /\ UNCHANGED <<un_key, un_attempt, un_current_file>>
    /\ UNCHANGED notUn

\* lines 326-415: ffmpeg writes the thumbnail or fails, the uploads, the return
UnThumbnail(u) ==
    /\ un_pc[u] = "thumbnail"
    /\ \E thumbnail_ok \in BOOLEAN :
        IF thumbnail_ok
        THEN UnWrite(u, ThumbnailFile(u))
        ELSE UNCHANGED <<un_files, un_written>>
    /\ un_pc' = [un_pc EXCEPT ![u] = "returned"]
    /\ UNCHANGED <<un_key, un_attempt, un_current_file>>
    /\ UNCHANGED notUn

NextUnits ==
    \E u \in Units :
        \/ UnSaveCode(u)
        \/ UnCheckEnv(u)
        \/ UnWriteEnv(u)
        \/ UnManim(u)
        \/ UnRename(u)
        \/ UnThumbnail(u)

\* ------------------------------------------------------------------------
\* The legacy render unit (main_video_generator.py, render_single_scene)
\* beside render_single_scene_logic, on the same renderer outcomes
\* ------------------------------------------------------------------------

\* main_video_generator.py line 120: max_attempts = 2
LegacyMaxAttempts == 2

\* main_video_generator.py line 198: render_failed = not rendered_video or
\* not rendered_video.exists() or result.returncode != 0
LegacyRenderFailed(outcome) == ~outcome.found \/ outcome.returncode # 0

\* what a unit did: whether the section's render succeeded, the renderer
\* runs and the repair-LLM calls made
UnitRun(succeeded, attempts, repairs) ==
    [succeeded |-> succeeded, attempts |-> attempts, repairs |-> repairs]

NoRun == UnitRun(FALSE, 0, 0)

\* the loop of a render unit from the given attempt on, with the repair call,
\* the rename and what follows it succeeding: a timeout is retried while
\* attempts remain, a failed render is repaired while attempts remain,
\* another exception returns at once
RECURSIVE UnitLoop(_, _, _, _)
UnitLoop(legacy, outcomes, attempt, repairs) ==
    LET max_attempts == IF legacy THEN LegacyMaxAttempts ELSE MAX_RENDER_ATTEMPTS
        outcome == outcomes[attempt + 1]
        failed == IF legacy THEN LegacyRenderFailed(outcome) ELSE RenderFailed(outcome)
        retries == IF legacy THEN attempt < LegacyMaxAttempts - 1
                   ELSE TimeoutRetries(attempt)
        repairing == IF legacy THEN attempt < LegacyMaxAttempts - 1
                     ELSE MayRepair(attempt)
    IN  IF attempt >= max_attempts THEN UnitRun(FALSE, attempt, repairs)
        ELSE CASE outcome.kind = "timeout" ->
                    IF retries THEN UnitLoop(legacy, outcomes, attempt + 1, repairs)
                    ELSE UnitRun(FALSE, attempt + 1, repairs)
               [] outcome.kind = "raised" -> UnitRun(FALSE, attempt + 1, repairs)
               [] outcome.kind = "completed" ->
                    IF failed /\ repairing
                    THEN UnitLoop(legacy, outcomes, attempt + 1, repairs + 1)
                    ELSE UnitRun(~failed, attempt + 1, repairs)

\* renderer.py lines 59-428
DevUnit(outcomes) == UnitLoop(FALSE, outcomes, 0, 0)

\* main_video_generator.py lines 124-281
LegacyUnit(outcomes) == UnitLoop(TRUE, outcomes, 0, 0)

LgOff ==
    /\ lg_pc = {"off"}
    /\ lg_outcomes = <<>>
    /\ lg_dev = NoRun
    /\ lg_legacy = NoRun

\* both units are given a section whose renderer runs will end as lg_outcomes
LgCall ==
    /\ lg_pc = {}
    /\ lg_outcomes \in [1..MAX_RENDER_ATTEMPTS -> ManimOutcomes]
    /\ lg_dev = NoRun
    /\ lg_legacy = NoRun

LgDev ==
    /\ "off" \notin lg_pc
    /\ "dev" \notin lg_pc
    /\ lg_dev' = DevUnit(lg_outcomes)
    /\ lg_pc' = lg_pc \cup {"dev"}
    /\ UNCHANGED <<lg_outcomes, lg_legacy>>
    /\ UNCHANGED notLg

LgLegacy ==
    /\ "off" \notin lg_pc
    /\ "legacy" \notin lg_pc
    /\ lg_legacy' = LegacyUnit(lg_outcomes)
    /\ lg_pc' = lg_pc \cup {"legacy"}
    /\ UNCHANGED <<lg_outcomes, lg_dev>>
    /\ UNCHANGED notLg

NextLegacy == LgDev \/ LgLegacy

\* ------------------------------------------------------------------------
\* Stage 2 as concurrent tasks: three variant tasks per section, the scripts
\* ------------------------------------------------------------------------

\* the sections of the plan whose tasks are followed
VrSections == {1, 2}

VrTasks == VrSections \X (1..NumVariants)

\* generator_logic.py, line 662: a script of fewer characters is replaced
MinScriptLen == 20

\* generator_logic.py, line 665: a content of fewer characters gets the
\* section's name in front
MinContentLen == 50

\* how a variant task can end: code whose narration has MinScriptLen
\* characters, code whose narration is one character short, a response
\* without code, an exception
VrOutcomes == {"code", "short", "empty", "raised"}

\* the code a task ends with, by the length of the narration in it
VrCode(s, v, outcome) ==
    [section |-> s, variant |-> v,
     narration |-> CASE outcome = "code" -> MinScriptLen
                     [] outcome = "short" -> MinScriptLen - 1
                     [] OTHER -> 0,
     text |-> outcome \in {"code", "short"}]

\* a script: where its text comes from and how long it is
Script(origin, s, v, length) ==
    [origin |-> origin, section |-> s, variant |-> v, length |-> length]

EmptyScript == Script("empty", 0, 0, 0)

\* extract_voiceover_script (lines 22-54): "" for code that is empty, else
\* the narration found in the code
ExtractVoiceoverScript(code) ==
    IF ~code.text THEN EmptyScript
    ELSE Script("variant", code.section, code.variant, code.narration)

\* the length of the content of section s in the plan
PlanContentLen(s) == IF s = 1 THEN MinContentLen - 1 ELSE MinContentLen

\* lines 663-666: the content of the plan, behind the section's name when it
\* is shorter than MinContentLen characters
PlanFallback(s) ==
    IF PlanContentLen(s) < MinContentLen
    THEN Script("named_plan_content", s, 0, PlanContentLen(s) + 3)
    ELSE Script("plan_content", s, 0, PlanContentLen(s))

\* the tuple a variant task returns: (section_num, variant_num, code, error)
VrResult(s, v, outcome) ==
    [section |-> s, variant |-> v, code |-> VrCode(s, v, outcome),
     error |-> outcome = "raised"]

\* lines 640-647: the variants kept, in the order of the tasks given to
\* gather: those with code and without error
RECURSIVE KeptVariants(_, _, _)
KeptVariants(tasks, s, v) ==
    IF v > NumVariants THEN <<>>
    ELSE LET result == VrResult(s, v, tasks[<<s, v>>])
         IN  (IF result.code.text /\ ~result.error THEN <<v>> ELSE <<>>)
                 \o KeptVariants(tasks, s, v + 1)

\* a plausible slip: the script is taken from the variant kept last
ExtractedScriptOfLast(tasks, s) ==
    LET kept == KeptVariants(tasks, s, 1)
        last == kept[Len(kept)]
        extracted == ExtractVoiceoverScript(VrCode(s, last, tasks[<<s, last>>]))
    IN  IF extracted.length < MinScriptLen THEN PlanFallback(s) ELSE extracted

\* lines 657-666: the script of the first variant kept, or the fallback
ExtractedScript(tasks, s) ==
    LET kept == KeptVariants(tasks, s, 1)
        first_variant == kept[1]
        extracted == ExtractVoiceoverScript(VrCode(s, first_variant,
                                                   tasks[<<s, first_variant>>]))
    IN  IF extracted.length < MinScriptLen THEN PlanFallback(s) ELSE extracted

NoScripts == [s \in {} |-> EmptyScript]

VrOff ==
    /\ vr_pc = "off"
    /\ vr_tasks = [t \in VrTasks |-> "off"]
    /\ vr_scripts = NoScripts
    /\ vr_variants = [s \in {} |-> <<>>]
    /\ vr_audio = NoScripts
    /\ vr_reported = <<>>

\* asyncio.run(generate_all_code_variants()): every task is created
VrGather ==
    /\ vr_pc = "codegen"
    /\ vr_tasks = [t \in VrTasks |-> "pending"]
    /\ vr_scripts = NoScripts
    /\ vr_variants = [s \in {} |-> <<>>]
    /\ vr_audio = NoScripts
    /\ vr_reported = <<>>

\* generate_code_variant_async runs to its end (lines 365-430): a task that
\* has code, empty or not, writes section_scripts before it returns
VrVariantDone(s, v) ==
    /\ vr_pc = "codegen"
    /\ vr_tasks[<<s, v>>] = "pending"
    /\ \E outcome \in VrOutcomes :
        /\ vr_tasks' = [vr_tasks EXCEPT ![<<s, v>>] = outcome]
        /\ vr_scripts' = IF outcome = "raised" THEN vr_scripts
                         ELSE Put(vr_scripts, s,
                                  ExtractVoiceoverScript(VrCode(s, v, outcome)))
    /\ UNCHANGED <<vr_pc, vr_variants, vr_audio, vr_reported>>
    /\ UNCHANGED notVr

\* every task has ended: the section tasks return (lines 640-670) and the
\* loop of lines 689-696 stores variants and script of the sections that
\* kept a variant
VrStore ==
    /\ vr_pc = "codegen"
    /\ \A t \in VrTasks : vr_tasks[t] # "pending"
    /\ LET kept == {s \in VrSections : KeptVariants(vr_tasks, s, 1) # <<>>}
       IN  /\ vr_variants' = [s \in kept |-> KeptVariants(vr_tasks, s, 1)]
           /\ vr_scripts' = [s \in DOMAIN vr_scripts \cup kept |->
                                IF s \in kept THEN ExtractedScript(vr_tasks, s)
                                ELSE vr_scripts[s]]
    /\ vr_pc' = "audio"
    /\ UNCHANGED <<vr_tasks, vr_audio, vr_reported>>
    /\ UNCHANGED notVr

\* generate_audio_from_script (lines 712-737), one task per item of
\* section_scripts: the synthesis is called with the script
VrAudio(s) ==
    /\ vr_pc = "audio"
    /\ s \in DOMAIN vr_scripts
    /\ s \notin DOMAIN vr_audio
    /\ vr_audio' = Put(vr_audio, s, vr_scripts[s])
    /\ UNCHANGED <<vr_pc, vr_tasks, vr_scripts, vr_variants, vr_reported>>
    /\ UNCHANGED notVr

\* sorted(section_scripts.keys()) from section s on
RECURSIVE VoiceoverScripts(_, _)
VoiceoverScripts(scripts, s) ==
    IF \A k \in DOMAIN scripts : k < s THEN <<>>
    ELSE (IF s \in DOMAIN scripts
          THEN <<[section |-> s, script |-> scripts[s]]>> ELSE <<>>)
             \o VoiceoverScripts(scripts, s + 1)

\* the job reaches Stage 6: metadata.voiceover_scripts of the completed
\* event (lines 1224-1230)
VrCompleted ==
    /\ vr_pc = "audio"
    /\ DOMAIN vr_audio = DOMAIN vr_scripts
    /\ vr_reported' = VoiceoverScripts(vr_scripts, 1)
    /\ vr_pc' = "completed"
    /\ UNCHANGED <<vr_tasks, vr_scripts, vr_variants, vr_audio>>
    /\ UNCHANGED notVr

NextVariants ==
    \/ \E t \in VrTasks : VrVariantDone(t[1], t[2])
    \/ VrStore
    \/ \E s \in VrSections : VrAudio(s)
    \/ VrCompleted

\* ------------------------------------------------------------------------
\* Specifications
\* ------------------------------------------------------------------------

\* no job is being followed
JobOff ==
    /\ pc = "off"
    /\ image_context = FALSE
    /\ video_structure = <<>>
    /\ events = <<>>
    /\ calls = {}
    /\ required_failed = {}
    /\ advisory_failed = {}
    /\ code_gen_results = <<>>
    /\ section_code_variants = <<>>
    /\ audio_gen_results = <<>>
    /\ audio_map = <<>>
    /\ patched_code_variants = <<>>
    /\ render_results = <<>>
    /\ local_files = {}
    /\ scene_videos = <<>>
    /\ successful_sections = <<>>
    /\ final_video_url = None

PlanOff == mega_plan = NoPlan

\* no later part is running
ExtOff == CliOff /\ PlanOff /\ PgOff /\ WtOff /\ MfOff /\ CmOff /\ UnOff /\ LgOff /\ VrOff

Init == InitJob /\ FbOff /\ RdOff /\ NpOff /\ ApiOff /\ ExtOff

Next ==
    \/ Setup
    \/ Planning
    \/ InitTTS
    \/ \E s \in Sections : CodeGenSection(s)
    \/ CodeGenDone
    \/ \E s \in Sections : AudioSection(s)
    \/ AudioDone
    \/ Patch
    \/ \E s \in Sections : RenderSection(s)
    \/ RenderDone
    \/ Stage5
    \/ Concat
    \/ Finish

\* one job of generate_educational_video_logic
Spec == Init /\ [][Next]_vars

\* the same job: the properties of what Stage 2.5 hands to Stage 3 and of
\* the events yielded are checked under this name
SpecJob == Init /\ [][Next]_vars

\* one call of try_render_with_fallback; every await returns (the render
\* wait is bounded by its 900 s timeout), so the call keeps taking steps
InitFallback == FbCall /\ JobOff /\ RdOff /\ NpOff /\ ApiOff /\ ExtOff

SpecFallback == InitFallback /\ [][NextFallback]_vars /\ WF_vars(NextFallback)

InitRender == RdCall /\ JobOff /\ FbOff /\ NpOff /\ ApiOff /\ ExtOff

SpecRender == InitRender /\ [][NextRender]_vars /\ WF_vars(NextRender)

InitNormalize == NpCall /\ JobOff /\ FbOff /\ RdOff /\ ApiOff /\ ExtOff

SpecNormalize == InitNormalize /\ [][NextNormalize]_vars /\ WF_vars(NextNormalize)

InitApi == ApiStart /\ JobOff /\ FbOff /\ RdOff /\ NpOff /\ ExtOff

SpecApi == InitApi /\ [][NextApi]_vars

\* none of the parts modelled before the command line is running
CoreOff == JobOff /\ FbOff /\ RdOff /\ NpOff /\ ApiOff

InitCli == CliCall /\ CoreOff /\ PlanOff /\ PgOff /\ WtOff /\ MfOff /\ CmOff /\ UnOff /\ LgOff /\ VrOff

SpecCli == InitCli /\ [][NextCli]_vars /\ WF_vars(NextCli)

InitPregen == PgStart /\ CoreOff /\ CliOff /\ PlanOff /\ WtOff /\ MfOff /\ CmOff /\ UnOff /\ LgOff /\ VrOff

SpecPregen == InitPregen /\ [][NextPregen]_vars

InitWordTimings == WtCall /\ CoreOff /\ CliOff /\ PlanOff /\ PgOff /\ MfOff /\ CmOff /\ UnOff /\ LgOff /\ VrOff

SpecWordTimings == InitWordTimings /\ [][NextWordTimings]_vars /\ WF_vars(NextWordTimings)

InitManualFixes == MfCall /\ CoreOff /\ CliOff /\ PlanOff /\ PgOff /\ WtOff /\ CmOff /\ UnOff /\ LgOff /\ VrOff

SpecManualFixes == InitManualFixes /\ [][NextManualFixes]_vars /\ WF_vars(NextManualFixes)

InitCleanCode == CmCall /\ CoreOff /\ CliOff /\ PlanOff /\ PgOff /\ WtOff /\ MfOff /\ UnOff /\ LgOff /\ VrOff

SpecCleanCode == InitCleanCode /\ [][NextCleanCode]_vars /\ WF_vars(NextCleanCode)

InitUnits == UnSpawned /\ CoreOff /\ CliOff /\ PlanOff /\ PgOff /\ WtOff /\ MfOff /\ CmOff /\ LgOff /\ VrOff

SpecUnits == InitUnits /\ [][NextUnits]_vars

InitLegacy == LgCall /\ CoreOff /\ CliOff /\ PlanOff /\ PgOff /\ WtOff /\ MfOff /\ CmOff /\ UnOff /\ VrOff

SpecLegacy == InitLegacy /\ [][NextLegacy]_vars

InitVariants == VrGather /\ CoreOff /\ CliOff /\ PlanOff /\ PgOff /\ WtOff /\ MfOff /\ CmOff /\ UnOff /\ LgOff

SpecVariants == InitVariants /\ [][NextVariants]_vars

\* ------------------------------------------------------------------------
\* Properties of the orchestrator (specification Spec)
\* ------------------------------------------------------------------------

TerminalIndexes ==
    {i \in 1..Len(events) : events[i].status \in {"completed", "failed"}}

\* the generator has stopped: after its terminal event, or by an exception
\* that left it
RunEnded == pc \in {"done", "raised"}

LastEvent == events[Len(events)]

Completed == pc = "done" /\ events # <<>> /\ LastEvent.status = "completed"

\* Stage 4 has ended: the render tasks were gathered and the volume reloaded
Stage4Ended == "volume_reload" \in calls /\ "volume_reload" \notin required_failed

\* the sections the completed event reports as delivered
DeliveredUrls == {s \in Sections : SectionUrl(s) \in Range(LastEvent.sections)}

DeliveredDetails ==
    {s \in Sections : SectionDetail(s) \in Range(LastEvent.section_details)}

\* C1: every run of generate_educational_video_logic that has ended yielded
\* exactly one terminal event (completed or failed), the terminal event is the
\* last event, and a failed event carries error, traceback and job_id. The
\* run that ends in work_dir.mkdir raising, before the try statement, has
\* yielded no event at all.
C1_ExactlyOneTerminalEvent ==
    /\ Cardinality(TerminalIndexes) <= 1
    /\ \A i \in TerminalIndexes :
          /\ i = Len(events)
          /\ events[i].status = "failed" =>
                {"error", "traceback", "job_id"} \subseteq DOMAIN events[i]
    /\ RunEnded => Cardinality(TerminalIndexes) = 1

\* C4: when Stage 4 ends with no clip present locally, no completed event is
\* ever yielded, neither the final upload nor the cache write is invoked, and
\* the run ends with the failed event of "No videos were successfully rendered".
C4_NoClipFailsJob ==
    (Stage4Ended /\ local_files = {}) =>
        /\ \A i \in 1..Len(events) : events[i].status # "completed"
        /\ "final_upload" \notin calls
        /\ "cache_store" \notin calls
        /\ pc = "done" =>
              /\ LastEvent.status = "failed"
              /\ LastEvent.error = "Error: " \o "No videos were successfully rendered"

\* the three variants of the only section all failed through the repair
\* rounds, and the job failed
C4_Witness ==
    /\ pc = "done"
    /\ Stage4Ended
    /\ local_files = {}
    /\ Len(video_structure) = 1
    /\ DOMAIN render_results = {1}
    /\ Len(patched_code_variants[1]) = NumVariants
    /\ render_results[1].error = FixAttemptsExhausted
    /\ LastEvent.status = "failed"

C6_DeliveredIff ==
    Completed =>
        /\ DeliveredUrls = DeliveredDetails
        /\ Len(LastEvent.sections) = Cardinality(DeliveredUrls)
        /\ Len(LastEvent.section_details) = Cardinality(DeliveredUrls)
        /\ \A s \in Sections :
              s \in DeliveredUrls <=>
                /\ s \in DOMAIN render_results
                /\ \/ render_results[s].gcs
                   \/ /\ render_results[s].video_path # None
                      /\ render_results[s].error = None
                      /\ s \in local_files

\* a completed job with one section delivered from its local clip only, and
\* another one rendered but neither uploaded nor found locally
C6_Witness ==
    /\ Completed
    /\ \E s \in DeliveredUrls : ~render_results[s].gcs /\ s \in local_files
    /\ \E s \in DOMAIN render_results :
          /\ render_results[s].video_path # None
          /\ ~render_results[s].gcs
          /\ s \notin local_files
          /\ s \notin DeliveredUrls

\* C7: the clips written to the concatenation list and the section URLs of
\* the completed event are in strictly ascending section order, whatever the
\* order in which the render tasks completed.
C7_AscendingOrder ==
    /\ \A i, j \in 1..Len(scene_videos) :
          i < j => scene_videos[i].section < scene_videos[j].section
    /\ ConcatList(scene_videos) =
          [i \in 1..Cardinality(local_files) |-> ClipPath(AscSeq(local_files)[i])]
    /\ Completed =>
          LastEvent.sections =
            [i \in 1..Cardinality(DeliveredUrls) |-> SectionUrl(AscSeq(DeliveredUrls)[i])]

\* two clips were concatenated and two sections delivered
C7_Witness ==
    /\ Completed
    /\ "ffmpeg_concat" \in calls
    /\ Len(scene_videos) >= 2
    /\ Len(LastEvent.sections) >= 2

FbIndexes(op) == {i \in 1..Len(fb_trace) : fb_trace[i].op = op}

\* C2: variants are rendered one at a time (a spawn is followed by its own
\* result before anything else), in ascending variant_num within one round;
\* the first result with a path and no error is the last thing the call does:
\* it returns that success, and nothing is spawned or repaired after it.
C2_SequentialFirstSuccessWins ==
    /\ fb_pc = "waiting" <=> Len(fb_trace) \in FbIndexes("spawn")
    /\ \A i \in FbIndexes("spawn") :
             i < Len(fb_trace) =>
                /\ fb_trace[i + 1].op = "result"
                /\ fb_trace[i + 1].variant_num = fb_trace[i].variant_num
                /\ fb_trace[i + 1].fix_attempt = fb_trace[i].fix_attempt
    /\ \A i \in FbIndexes("result") : i > 1 /\ fb_trace[i - 1].op = "spawn"
    /\ \A i, j \in FbIndexes("spawn") :
          (i < j /\ fb_trace[i].fix_attempt = fb_trace[j].fix_attempt) =>
                fb_trace[i].variant_num < fb_trace[j].variant_num
    /\ \A i \in FbIndexes("result") :
          fb_trace[i].good =>
                /\ i = Len(fb_trace)
                /\ fb_pc = "returned"
                /\ fb_result.success
                /\ fb_result.video_path # None
                /\ fb_result.error = None

\* the second of three variants succeeded after the first one failed; the
\* third one was never spawned
C2_Witness ==
    /\ fb_pc = "returned"
    /\ fb_result.success
    /\ Len(fb_code_variants) = NumVariants
    /\ fb_next = 2
    /\ Len(fb_trace) = 4
    /\ ~fb_trace[2].good

\* C3 (safety part): at most 3 repair rounds, entered at fix_attempt 0, 1 and
\* 2, at most 12 render invocations, and a call that returns without a good
\* result returns a failure: success false, no path, an error.
C3_Bounded ==
    /\ Cardinality(FbIndexes("fix")) <= 3
    /\ \A i \in FbIndexes("fix") : fb_trace[i].fix_attempt \in {0, 1, 2}
    /\ \A i, j \in FbIndexes("fix") :
          i < j => fb_trace[i].fix_attempt < fb_trace[j].fix_attempt
    /\ Cardinality(FbIndexes("spawn")) <= 12
    /\ (fb_pc = "returned" /\ \A i \in FbIndexes("result") : ~fb_trace[i].good) =>
          /\ ~fb_result.success
          /\ fb_result.video_path = None
          /\ fb_result.error # None

\* C3: try_render_with_fallback terminates for every sequence of render and
\* repair outcomes, within the bounds of C3_Bounded.
C3_TerminatesBounded == [](C3_Bounded) /\ <>(fb_pc = "returned")

\* all three variants failed in the first round and in each of the three
\* repair rounds: 12 render invocations, then the terminal failure
C3_Witness ==
    /\ fb_pc = "returned"
    /\ Cardinality(FbIndexes("spawn")) = 12
    /\ Cardinality(FbIndexes("fix")) = 3
    /\ fb_result.error = FixAttemptsExhausted

\* ------------------------------------------------------------------------
\* Properties of render_single_scene_logic (specification SpecRender)
\* ------------------------------------------------------------------------

RdIndexes(op) == {i \in 1..Len(rd_trace) : rd_trace[i].op = op}

\* C10 (safety part): the renderer is invoked at most MAX_RENDER_ATTEMPTS = 2
\* times and the repair LLM at most once; a call that has returned has
\* returned a tuple for its section.
C10_Bounded ==
    /\ Cardinality(RdIndexes("manim")) <= 2
    /\ Cardinality(RdIndexes("manim")) <= MAX_RENDER_ATTEMPTS
    /\ Cardinality(RdIndexes("repair_llm")) <= 1
    /\ rd_pc = "returned" => Len(rd_result) \in {3, 4} /\ rd_result[1] = rd_section_num

\* C10: render_single_scene_logic always returns, for every sequence of
\* renderer outcomes, within the bounds of C10_Bounded.
C10_ReturnsBounded == [](C10_Bounded) /\ <>(rd_pc = "returned")

\* the first run produced no clip, the code was repaired once, the second
\* run failed too and the call returned its failure
C10_Witness ==
    /\ rd_pc = "returned"
    /\ Cardinality(RdIndexes("manim")) = 2
    /\ Cardinality(RdIndexes("repair_llm")) = 1
    /\ rd_current_file = RepairedFile(rd_section_num)
    /\ rd_result[2] = None

\* C11: an attempt whose renderer process completed is a success exactly
\* when an mp4 exists in one of the two candidate directories: the success
\* path (rename, ...) follows such a run whatever its exit code, and a run
\* that left no mp4 is followed by the repair or by the failure return,
\* also with exit code zero.
C11_SuccessIffClipFound ==
    \A i \in RdIndexes("manim") :
        rd_trace[i].outcome.kind = "completed" =>
            IF \E d \in 1..2 : rd_trace[i].outcome.dirs[d] = "mp4"
            THEN /\ i < Len(rd_trace)
                 /\ rd_trace[i + 1].op = "rename"
                 /\ rd_trace[i + 1].outcome.kind = "ok" =>
                        rd_pc = "returned" /\ rd_result[2] = ClipPath(rd_section_num)
            ELSE /\ i < Len(rd_trace) => rd_trace[i + 1].op = "repair_llm"
                 /\ i = Len(rd_trace) =>
                        rd_pc = "returned" /\ rd_result = RenderFailedResult(rd_section_num)

\* the first run ended with exit code zero and no mp4 (a failure: repair),
\* the second one with a non-zero exit code and an mp4 in 480p12 only (a
\* success)
C11_Witness ==
    /\ rd_pc = "returned"
    /\ Len(rd_result) = 4
    /\ rd_result[2] # None
    /\ \E i, j \in RdIndexes("manim") :
          /\ i < j
          /\ rd_trace[i].outcome.kind = "completed"
          /\ rd_trace[i].outcome.returncode = 0
          /\ rd_trace[i].outcome.dirs = <<"empty", "missing">>
          /\ rd_trace[j].outcome.returncode = 1
          /\ rd_trace[j].outcome.dirs = <<"empty", "mp4">>

\* C12: a timeout of the renderer on a non-final attempt does not return:
\* the next attempt follows (with the same file, no repair); a timeout on the
\* final attempt returns (section, absent, "Timeout after repair attempt",
\* false).
C12_TimeoutRetriesThenReturns ==
    \A i \in RdIndexes("manim") :
        rd_trace[i].outcome.kind = "timeout" =>
            IF rd_trace[i].attempt < MAX_RENDER_ATTEMPTS - 1
            THEN /\ rd_attempt > rd_trace[i].attempt
                 /\ i = Len(rd_trace) => rd_pc = "loop"
                 /\ i < Len(rd_trace) =>
                        /\ rd_trace[i + 1].op = "manim"
                        /\ rd_trace[i + 1].attempt = rd_trace[i].attempt + 1
                        /\ rd_trace[i + 1].file = rd_trace[i].file
            ELSE /\ i = Len(rd_trace)
                 /\ rd_pc = "returned"
                 /\ rd_result = <<rd_section_num, None, "Timeout after repair attempt", FALSE>>

\* both attempts timed out
C12_Witness ==
    /\ rd_pc = "returned"
    /\ Len(rd_trace) = 2
    /\ rd_trace[1].outcome.kind = "timeout"
    /\ rd_trace[2].outcome.kind = "timeout"
    /\ rd_result[3] = "Timeout after repair attempt"

\* C13: every value render_single_scene_logic returns is a 4-tuple in which
\* exactly one of video path and error is present and the upload flag is true
\* only with a video path. The return of the terminal render failure
\* is a 3-tuple.
C13_ReturnsFourTuple ==
    rd_pc = "returned" =>
        /\ Len(rd_result) = 4
        /\ rd_result[1] = rd_section_num
        /\ (rd_result[2] # None) # (rd_result[3] # None)
        /\ rd_result[4] => rd_result[2] # None

\* ------------------------------------------------------------------------
\* Properties of normalize_prompt (specification SpecNormalize)
\* ------------------------------------------------------------------------

\* C18: normalize_prompt is idempotent:
\* normalize_prompt(normalize_prompt(p)) = normalize_prompt(p) for every p,
\* also when the normalized form exceeds 200 characters before truncation.
C18_Idempotent ==
    np_pc = "twice" => np_again = np_output

\* C19: the output of normalize_prompt has at most 200 characters, all of
\* them in [a-z0-9-], no leading or trailing hyphen, no two consecutive
\* hyphens; an input of punctuation only normalizes to the empty string.
C19_OutputShape ==
    np_pc # "call" =>
        /\ Len(np_output) <= 200
        /\ \A i \in 1..Len(np_output) : np_output[i] \in {"a", "b", "7", "-"}
        /\ np_output # <<>> => np_output[1] # "-" /\ np_output[Len(np_output)] # "-"
        /\ \A i \in 1..(Len(np_output) - 1) :
              ~(np_output[i] = "-" /\ np_output[i + 1] = "-")
        /\ (\A i \in 1..Len(np_input) : np_input[i] = "!") => np_output = <<>>

\* the request last served found, at its arrival, a stored entry under the
\* key of its prompt, carried no image_context and its read did not fail
CacheHit ==
    /\ api_count > 0
    /\ api_item.prompt # <<>>
    /\ ~api_item.image_context
    /\ api_item.fault = "none"
    /\ CacheKey(NormalizePrompt(api_item.prompt)) \in DOMAIN cache_before

\* C14: a request without image_context whose prompt has a stored entry
\* under its normalized key (the read of which succeeds) is answered by
\* exactly one SSE message, of status "completed" and cached true, and the
\* generation function is never invoked for it.
C14_CachedShortCircuit ==
    CacheHit =>
        /\ api_response.kind = "cached"
        /\ api_pc = "idle"
        /\ Len(api_sse) = 1
        /\ api_sse[1] = Sse(CachedEvent(cache_before[CacheKey(NormalizePrompt(api_item.prompt))],
                                        api_item.job_id))
        /\ api_sse[1][2].status = "completed"
        /\ api_sse[1][2].cached = TRUE
        /\ gen_calls = 0
        /\ gen_events = <<>>

\* a prompt that differs from its key hits the entry another prompt stored
C14_Witness ==
    /\ CacheHit
    /\ api_item.prompt = <<"b", "!">>
    /\ cache_before[CacheKey(<<"b">>)].metadata.prompt = <<"B">>
    /\ api_response.kind = "cached"
    /\ Len(api_sse) = 1

\* the lookup of the request last served could not give an entry: the key
\* is empty, nothing is stored under it, or the service or the read failed
LookupFailed ==
    /\ api_count > 0
    /\ api_item.prompt # <<>>
    /\ ~api_item.image_context
    /\ \/ api_item.fault # "none"
       \/ NormalizePrompt(api_item.prompt) = <<>>
       \/ CacheKey(NormalizePrompt(api_item.prompt)) \notin DOMAIN cache_before

\* the messages sent so far are the events of the generation, one each
ForwardedSoFar ==
    /\ Len(api_sse) >= Len(gen_events)
    /\ \A i \in 1..Len(gen_events) : api_sse[i] = Sse(gen_events[i])

\* C16: get_cache never raises and answers absent when the prompt
\* normalizes to the empty string, when no object is stored under the key
\* and when the read or the parse raises; after any of these, and when the
\* cache service cannot be constructed, the adapter streams the generation
\* as it does after a miss.
C16_LookupFailureIsMiss ==
    /\ api_lookup # "raised"
    /\ LookupFailed =>
        /\ api_lookup = IF api_item.fault = "ctor_raised" THEN "ctor_raised" ELSE "absent"
        /\ api_response.kind = "stream"
        /\ api_pc \in {"streaming", "idle"}
        /\ ForwardedSoFar
        /\ (api_pc = "idle" /\ ~gen_raised) => gen_calls = 1 /\ GenTerminalYielded

\* a stored entry that cannot be parsed: the generation ran to its end
C16_Witness ==
    /\ LookupFailed
    /\ api_item.fault = "parse_error"
    /\ CacheKey(NormalizePrompt(api_item.prompt)) \in DOMAIN cache_before
    /\ api_lookup = "absent"
    /\ api_response.kind = "stream"
    /\ api_pc = "idle"
    /\ gen_events # <<>>
    /\ gen_events[Len(gen_events)].status = "completed"

\* the key store_cache computes for the request last served
StoreKey == CacheKey(NormalizePrompt(api_item.prompt))

\* C17: store_cache never raises; it returns true only when the entry is
\* stored under cache/{normalize(prompt)}.json, and it returns false with
\* the stored entries unchanged when the prompt normalizes to the empty
\* string, when the serialization fails and when the upload fails.
C17_StoreBestEffort ==
    /\ api_store.returned \in {"not_called", "true", "false"}
    /\ api_store.called => api_store.returned \in {"true", "false"}
    /\ api_store.returned = "true" =>
        /\ NormalizePrompt(api_item.prompt) # <<>>
        /\ StoreKey \in DOMAIN cache
        /\ cache[StoreKey] = Stamp(CacheData(api_item.prompt, gen_events[Len(gen_events)]))
        /\ \A k \in DOMAIN cache_before \ {StoreKey} :
               k \in DOMAIN cache /\ cache[k] = cache_before[k]
    /\ ( /\ api_store.called
         /\ \/ NormalizePrompt(api_item.prompt) = <<>>
            \/ api_store.fault \in {"serialize_raised", "upload_raised"} ) =>
        /\ api_store.returned = "false"
        /\ cache = cache_before

\* a job stored an entry under a key that had none
C17_Witness ==
    /\ api_store.called
    /\ api_store.returned = "true"
    /\ StoreKey \notin DOMAIN cache_before
    /\ cache[StoreKey] = Stamp(CacheData(api_item.prompt, gen_events[Len(gen_events)]))

\* the request last served carried a prompt and image_context
WithImageContext ==
    /\ api_count > 0
    /\ api_item.prompt # <<>>
    /\ api_item.image_context

\* C15: a request with image_context is never looked up in the cache and
\* its job never writes the cache: the stored entries stay those found at
\* its arrival, and its generation is run even when an entry is stored
\* under the key of its prompt.
C15_ImageContextBypassesCache ==
    WithImageContext =>
        /\ api_lookup = "not_called"
        /\ api_store = NoStore
        /\ cache = cache_before
        /\ api_response.kind = "stream"
        /\ ForwardedSoFar
        /\ api_pc = "idle" => gen_calls = 1

\* the job of a request with image_context, for whose prompt an entry is
\* stored, completed
C15_Witness ==
    /\ WithImageContext
    /\ StoreKey \in DOMAIN cache_before
    /\ api_pc = "idle"
    /\ gen_calls = 1
    /\ gen_events # <<>>
    /\ gen_events[Len(gen_events)].status = "completed"
    /\ cache = cache_before

\* C20: the messages of the stream are the events the generation function
\* yielded, one message each, in the order of the yields; when iterating
\* the generator raises, one more message, of status "failed", ends the
\* stream, and the stream ends as one that was not interrupted.
C20_ForwardsEveryEvent ==
    (api_count > 0 /\ api_response.kind = "stream") =>
        /\ ForwardedSoFar
        /\ Len(api_sse) = Len(gen_events) + (IF gen_raised THEN 1 ELSE 0)
        /\ gen_raised =>
            /\ api_sse[Len(api_sse)] = Sse(StreamingError)
            /\ api_sse[Len(api_sse)][2].status = "failed"
            /\ api_pc = "idle"

\* the generator raised after two events
C20_Witness ==
    /\ api_response.kind = "stream"
    /\ gen_raised
    /\ Len(gen_events) = 2
    /\ gen_events[1].status = "processing"
    /\ Len(api_sse) = 3
    /\ api_sse[3][2].status = "failed"

\* the request last served carried neither a topic nor a prompt: each is
\* missing or empty
NoTopicNoPrompt ==
    /\ api_count > 0
    /\ ~Truthy(api_item.topic)
    /\ ~Truthy(api_item.prompt_field)

\* C21: a request whose topic and prompt are both missing or empty gets the
\* result {success: false, error} at once; no cache lookup is made and the
\* generation function is not called for it.
C21_PromptRequired ==
    NoTopicNoPrompt =>
        /\ api_response = ErrorResult
        /\ api_response.success = FALSE
        /\ api_pc = "idle"
        /\ api_lookup = "not_called"
        /\ api_sse = <<>>
        /\ gen_calls = 0
        /\ gen_events = <<>>
        /\ api_store = NoStore
        /\ cache = cache_before

\* an empty topic with a missing prompt was refused while an entry is stored
C21_Witness ==
    /\ NoTopicNoPrompt
    /\ api_item.topic = Field(TRUE, <<>>)
    /\ api_item.prompt_field = Missing
    /\ api_response.kind = "error"
    /\ cache # EmptyCache

\* the positions of cli_out that hold a print of the kind
CliPrinted(kind) == {i \in 1..Len(cli_out) : cli_out[i].kind = kind}

\* the run of main_cli_logic is over: it returned or an exception left it
CliEnded == cli_pc \in {"returned", "raised"}

\* the loop stops at the first update that carries an error, prints the
\* error and the traceback the update has, and no update after it
CliStopsAtError ==
    /\ \A i \in 1..(Len(cli_stream) - 1) : CliError(cli_stream[i]) = ""
    /\ \A i \in CliPrinted("error") :
        /\ cli_out[i].value = CliError(cli_stream[Len(cli_stream)])
        /\ \A j \in (i + 1)..Len(cli_out) : cli_out[j].kind \in {"traceback", "footer"}
        /\ ("traceback" \in DOMAIN cli_stream[Len(cli_stream)])
               => (i + 1 \in CliPrinted("traceback"))
    /\ (cli_stream # <<>> /\ CliError(cli_stream[Len(cli_stream)]) # "")
           => CliPrinted("error") # {}

\* C22: main_cli_logic stops consuming at the first update that carries an
\* error, printing the error and its traceback and no later update, and it
\* prints the completion footer exactly once, as its last print, at the end
\* of every run.
C22_StopsAtErrorFooterOnce ==
    /\ CliStopsAtError
    /\ cli_pc = "iterating" => CliPrinted("footer") = {}
    /\ CliEnded => CliPrinted("footer") = {Len(cli_out)}

\* C23: when the stream holds the completed update of the orchestrator, the
\* final video URL of that update and its metadata are printed.
C23_PrintsFinalUrlAndMetadata ==
    \A i \in 1..Len(cli_stream) :
        cli_stream[i].status = "completed" =>
            /\ \E j \in CliPrinted("url") : cli_out[j].value = cli_stream[i].final_video_url
            /\ CliPrinted("metadata") # {}

\* the calls of code generation, TTS and rendering
GenerationCalls == {"code_llm", "tts_init", "tts", "render"}

\* a cleaned response that is not JSON ends the job with one failed event
\* before any code-generation, TTS or render call
PlanParseFailureIsFatal ==
    mega_plan = InvalidJson =>
        /\ pc = "done"
        /\ Len(events) = 2
        /\ events[2].status = "failed"
        /\ TerminalIndexes = {2}
        /\ calls \cap GenerationCalls = {}

\* the one-section structure: "Main", with the description as content
MainSection(description) ==
    [section |-> "Main", duration |-> "60 seconds", content |-> description]

\* the pipeline went on after Stage 1 with the one section "Main"
ContinuesWithMain ==
    /\ video_structure = <<MainSection(mega_plan.description)>>
    /\ required_failed \cap {"plan_llm", "plan_json", "plan_get"} = {}
    /\ Len(events) >= 2
    /\ events[2] = ProcessingEvent(15)

\* C24 as stated, for every response that is valid JSON and gives no
\* video_structure, an object or not
C24_ValidJsonOriginal ==
    /\ PlanParseFailureIsFatal
    /\ (mega_plan = NotObject \/ (mega_plan.kind = "object" /\ mega_plan.num_sections = 0))
           => (mega_plan.kind = "object" /\ ContinuesWithMain)

\* C24: when the cleaned planner response is not valid JSON the job ends
\* with one failed event and no code-generation, TTS or render call is
\* issued; when it is a JSON object whose video_structure is missing or
\* empty the pipeline continues with exactly one section, named "Main",
\* whose content is the description of the plan.
C24_PlanFallback ==
    /\ PlanParseFailureIsFatal
    /\ (mega_plan.kind = "object" /\ mega_plan.num_sections = 0) => ContinuesWithMain

\* a plan without sections was rendered as the one section "Main"
C24_Witness ==
    /\ mega_plan.kind = "object"
    /\ mega_plan.num_sections = 0
    /\ mega_plan.description = "An overview"
    /\ video_structure[1].content = "An overview"
    /\ "render" \in calls
    /\ pc = "done"

\* a service constructed with the fallback enabled
PgWithFallback == pg_pc = "ready" /\ pg_service.fallback_to_elevenlabs

\* C25: on a service constructed with the fallback enabled, whatever the
\* audio file did between the construction and the calls, each
\* generate_from_text call returns the metadata of the file when the file
\* exists at the call and the result of the fallback service when it does
\* not; none raises the not-found error.
C25_FileOrFallback ==
    PgWithFallback =>
        \A i \in 1..Len(pg_results) :
            /\ pg_results[i].result.kind # "FileNotFoundError"
            /\ pg_results[i].result.kind =
                   IF pg_results[i].exists THEN "metadata" ELSE "delegated"

\* the part of C25 that the service keeps: a file that exists at the call is
\* returned, and a service constructed without the file delegates
PgKept ==
    PgWithFallback =>
        \A i \in 1..Len(pg_results) :
            (pg_results[i].exists \/ ~pg_service.audio_exists) =>
                pg_results[i].result.kind =
                    IF pg_results[i].exists THEN "metadata" ELSE "delegated"

\* the maximal runs of characters that are no whitespace, as pairs of the
\* Python indexes of their first and last character
WordRuns ==
    LET n == Len(wt_characters)
        word(i) == wt_characters[i + 1] \notin WtWhitespace
    IN  {run \in (0..(n - 1)) \X (0..(n - 1)) :
            /\ run[1] <= run[2]
            /\ \A i \in run[1]..run[2] : word(i)
            /\ run[1] = 0 \/ ~word(run[1] - 1)
            /\ run[2] = n - 1 \/ ~word(run[2] + 1)}

\* the place of a run among the runs, in source order
RunRank(run) == Cardinality({r \in WordRuns : r[1] <= run[1]})

\* C26: for every characters list with parallel time arrays, the words
\* returned are, in source order, one per maximal run of characters that
\* are no whitespace: the text of the run, its first and last index, the
\* start time of its first character and the end time of its last one.
C26_OneWordPerRun ==
    wt_pc = "returned" =>
        /\ Len(wt_words) = Cardinality(WordRuns)
        /\ \A run \in WordRuns :
            /\ RunRank(run) <= Len(wt_words)
            /\ wt_words[RunRank(run)] =
                   [text |-> SubSeq(wt_characters, run[1] + 1, run[2] + 1),
                    start |-> StartTimes(wt_characters)[run[1] + 1],
                    end |-> EndTimes(wt_characters)[run[2] + 1],
                    char_start_index |-> run[1],
                    char_end_index |-> run[2]]

\* the part of C26 that holds: lists that do not end in whitespace
WtKept ==
    (wt_characters # <<>> /\ wt_characters[Len(wt_characters)] \notin WtWhitespace)
        => C26_OneWordPerRun

\* applying the fixes to their output changes nothing
MfIdempotent == mf_pc = "applied_again" => mf_twice = mf_once

\* C27: the output of apply_all_manual_fixes holds no occurrence of (Scene),
\* each one having become (VoiceoverScene), and applying the fixes to that
\* output leaves it unchanged.
C27_SceneReplacedIdempotent ==
    /\ mf_pc \in {"applied", "applied_again"} => ~CodeHas(mf_once, "(Scene)")
    /\ MfIdempotent

\* the call carries the selected voice id and transcription_model=None, and
\* no other voice id or transcription model
CarriesSelected(call) ==
    /\ call.service = "ElevenLabsService"
    /\ \E i \in DOMAIN call.args : call.args[i] = SelectedVoice
    /\ \E i \in DOMAIN call.args : call.args[i] = NoTranscription
    /\ \A i \in DOMAIN call.args :
        /\ call.args[i].key = "voice_id" => call.args[i] = SelectedVoice
        /\ call.args[i].key = "transcription_model" => call.args[i] = NoTranscription

\* C28: for every code given, the output of clean_manim_code holds exactly
\* one narration-service constructor call, which carries the selected voice
\* id and transcription_model=None.
C28_OneSelectedCall ==
    cm_pc = "cleaned" =>
        /\ Len(cm_out.calls) = 1
        /\ CarriesSelected(cm_out.calls[1])

\* the same for the codes that hold exactly one constructor call
C28_OfOneCall ==
    (cm_pc = "cleaned" /\ Len(cm_code.calls) = 1) =>
        /\ Len(cm_out.calls) = 1
        /\ CarriesSelected(cm_out.calls[1])

\* what holds: one call out for one call in, and the selected pair when
\* the call has no argument, a single voice_id, transcription_model or
\* voice_name argument, or is one of another service
CmKept ==
    (cm_pc = "cleaned" /\ Len(cm_code.calls) = 1) =>
        /\ Len(cm_out.calls) = 1
        /\ (Len(cm_code.calls[1].args) = 0
            \/ (Len(cm_code.calls[1].args) = 1 /\ cm_code.calls[1].args[1].key # "model"))
               => cm_out.calls[1] = SelectedCall

\* the render unit returned a clip path
RdProducedClip == rd_pc = "returned" /\ rd_result[2] # None

\* C29: a render unit that produced a clip has committed its writes to the
\* shared volume, after the rename of the clip, when its result is returned;
\* the orchestrator's half (the reload after the results are collected and
\* before any local existence check) is ReloadBeforeExistenceCheck.
C29_CommitBeforeReturn ==
    RdProducedClip =>
        \E i \in DOMAIN rd_trace, k \in DOMAIN rd_trace :
            /\ rd_trace[i].op = "rename"
            /\ rd_trace[k].op = "volume_commit"
            /\ i < k

\* the orchestrator's half: the local files are looked at only in the step
\* that has reloaded the volume, and that step is taken when every render
\* result is in
ReloadBeforeExistenceCheck ==
    [][(local_files' # local_files \/ scene_videos' # scene_videos) =>
        /\ \A s \in DOMAIN render_results : render_results[s].done
        /\ "volume_reload" \notin calls
        /\ "volume_reload" \in calls']_vars

\* the orchestrator has found a clip locally
FoundLocally == scene_videos # <<>>

\* C30: the sets of files two render units of different sections of one job
\* create or write in the working directory are disjoint, in every
\* interleaving of their steps.
C30_DisjointWrites ==
    \A u \in Units, v \in Units :
        u # v => un_written[u] \cap un_written[v] = {}

\* what holds: the environment file is the only path two units share
UnOnlyEnvShared ==
    \A u \in Units, v \in Units :
        u # v => un_written[u] \cap un_written[v] \subseteq {EnvFile(u)}

\* what holds: without a key in the environment the units' files are disjoint
UnDisjointWithoutKey == ~un_key => C30_DisjointWrites

\* two units are about to write the same path
UnBothWriting ==
    \E u \in Units, v \in Units :
        u # v /\ un_pc[u] = "write_env" /\ un_pc[v] = "write_env"

\* the renderer runs of the second attempt (attempt = 1)
SecondAttempts == {i \in DOMAIN rd_trace : rd_trace[i].op = "manim" /\ rd_trace[i].attempt = 1}

\* the repair-LLM calls made before entry i of the trace
RepairsBefore(i) == {k \in 1..(i - 1) : rd_trace[k].op = "repair_llm"}

\* C31: a second render attempt renders section_{n}_repaired.py, produced by
\* exactly one repair-LLM call made after the first attempt failed, whatever
\* the kind of the first failure, a timeout included.
C31_SecondAttemptRendersRepaired ==
    \A i \in SecondAttempts :
        /\ rd_trace[i].file = RepairedFile(rd_section_num)
        /\ Cardinality(RepairsBefore(i)) = 1
        /\ \A k \in RepairsBefore(i) :
            /\ rd_trace[k].outcome.kind = "ok"
            /\ k > 1
            /\ rd_trace[k - 1].op = "manim"
            /\ rd_trace[k - 1].attempt = 0

\* what holds: the same, for a first attempt that did not time out
RdSecondAfterFailedRender ==
    \A i \in SecondAttempts :
        rd_trace[1].outcome.kind # "timeout" =>
            /\ rd_trace[i].file = RepairedFile(rd_section_num)
            /\ Cardinality(RepairsBefore(i)) = 1
            /\ \A k \in RepairsBefore(i) :
                /\ rd_trace[k].outcome.kind = "ok"
                /\ k = 2
                /\ rd_trace[1].op = "manim"
                /\ rd_trace[1].attempt = 0
                /\ RenderFailed(rd_trace[1].outcome)

\* what holds: after a timeout of the first attempt the second attempt
\* renders the unrepaired source, without any repair-LLM call
RdSecondAfterTimeout ==
    \A i \in SecondAttempts :
        rd_trace[1].outcome.kind = "timeout" =>
            /\ rd_trace[i].file = CodeFile(rd_section_num)
            /\ RepairsBefore(i) = {}

\* a second attempt that follows a repaired first failure
RdSecondAttemptRepaired ==
    \E i \in SecondAttempts : rd_trace[1].outcome.kind = "completed"

\* Stage 3 is over: the variants sent to rendering are fixed
Patched == pc \in {"render", "stage5", "concat", "finish"}

\* the synthesis of section s succeeded and the audio file exists
AudioReady(s) ==
    /\ audio_gen_results[s].audio_path = "section_" \o ToString(s) \o ".mp3"
    /\ audio_gen_results[s].error = None

FailedMessages == {i \in DOMAIN api_sse : api_sse[i][2].status = "failed"}

\* C33: every SSE event with status "failed" a client can receive carries
\* error, traceback and job_id, whether the failure arose inside the
\* orchestrator or while the adapter was iterating the generator.
C33_FailedEventFields ==
    \A i \in FailedMessages :
        {"error", "traceback", "job_id"} \subseteq DOMAIN api_sse[i][2]

\* what holds: a failed event is either the adapter's own, the last message
\* of a stream whose iteration raised, with status and error only, or one
\* of the orchestrator, forwarded with its error, traceback and job_id
ApiFailedEventKinds ==
    \A i \in FailedMessages :
        IF api_sse[i][2] = StreamingError
        THEN gen_raised /\ i = Len(api_sse)
        ELSE {"error", "traceback", "job_id"} \subseteq DOMAIN api_sse[i][2]

\* a failed event of the orchestrator has been forwarded
ApiFailedForwarded == FailedMessages # {} /\ ~gen_raised

\* both units have run on the outcomes
LgBoth == lg_pc = {"dev", "legacy"}

\* C34: for every sequence of renderer subprocess outcomes, the legacy
\* render unit and the dev renderer agree on whether the section's render
\* succeeded and on the numbers of render attempts and repair-LLM calls.
C34_UnitsAgree == LgBoth => lg_dev = lg_legacy

\* what holds: they agree unless a renderer run left a clip and a non-zero
\* exit code
LgAgreeUnlessClipWithExitCode ==
    (LgBoth /\ \A i \in DOMAIN lg_outcomes :
                  ~(lg_outcomes[i].kind = "completed" /\ lg_outcomes[i].found
                    /\ lg_outcomes[i].returncode # 0))
        => lg_dev = lg_legacy

\* the two units differ on whether the section was rendered
LgSuccessDiffers == LgBoth /\ lg_dev.succeeded # lg_legacy.succeeded

\* the dev renderer, as an action, does what DevUnit computes from the
\* outcomes of its renderer runs (the repair call and the rename succeeding)
RdAsDevUnit ==
    LET manims == SelectSeq(rd_trace, LAMBDA e : e.op = "manim")
        outcomes == [i \in 1..MAX_RENDER_ATTEMPTS |->
                        IF i <= Len(manims) THEN manims[i].outcome
                        ELSE Outcome("raised", 0, FALSE)]
        smooth == \A i \in DOMAIN rd_trace :
                      rd_trace[i].op \in {"repair_llm", "rename"}
                          => rd_trace[i].outcome.kind = "ok"
    IN  (rd_pc = "returned" /\ smooth) =>
            DevUnit(outcomes) = UnitRun(rd_result[2] # None, Len(manims),
                                        Cardinality(RdIndexes("repair_llm")))

\* the request last served carried a prompt with a key and no image_context,
\* and its cache check has just been answered
ApiKeyedRequest ==
    /\ api_count > 0
    /\ gen_events = <<>>
    /\ ~gen_raised
    /\ api_item.prompt # <<>>
    /\ NormalizePrompt(api_item.prompt) # <<>>
    /\ ~api_item.image_context

\* the requests that differ from the one last served in their prompt (of
\* the same key), mode, voice_id, job_id and clerk_user_id only
SameKeyRequests ==
    {[api_item EXCEPT !.prompt = prompt, !.mode = params.mode,
                      !.job_id = params.job_id, !.voice_id = params.voice_id,
                      !.clerk_user_id = params.clerk_user_id] :
        prompt \in {q \in ApiPrompts : NormalizePrompt(q) = NormalizePrompt(api_item.prompt)},
        params \in AllParams}

\* the cache answer the request last served received: what its lookup gave
\* and, after a hit, the messages sent
ApiAnswer ==
    [kind |-> api_lookup, sse |-> IF api_lookup = "entry" THEN api_sse ELSE <<>>]

\* C35: for requests without image_context whose prompts normalize to the
\* same non-empty key, the cache lookup outcome (hit or miss, and the payload
\* served) is the same whatever their mode, voice_id, job_id and
\* clerk_user_id: every such request would have received, from the cache as
\* it stood, the answer the request last served received.
C35_LookupIgnoresParams ==
    ApiKeyedRequest =>
        \A other \in SameKeyRequests :
            CacheAnswer(cache_before, other, api_item.fault) = ApiAnswer

\* a fast-mode request was served the entry a deep-mode job wrote
C35_Witness ==
    /\ ApiKeyedRequest
    /\ api_item.mode = "fast"
    /\ api_item.job_id = "client-job"
    /\ api_lookup = "entry"
    /\ api_jobs[CacheKey(NormalizePrompt(api_item.prompt))].mode = "deep"
    /\ api_jobs[CacheKey(NormalizePrompt(api_item.prompt))].completed.job_id = Uuid(1)
    /\ Len(api_sse) = 1
    /\ api_sse[1][2].job_id = Uuid(1)

\* the request last served, without image_context, was answered from the
\* entry a job wrote under the key of its prompt
ServedFromJobsEntry ==
    /\ api_count > 0
    /\ api_item.prompt # <<>>
    /\ ~api_item.image_context
    /\ api_lookup = "entry"
    /\ CacheKey(NormalizePrompt(api_item.prompt)) \in DOMAIN api_jobs

\* the completed event, as built before the cache write, of the job that
\* last wrote under the key of the request last served
OriginalCompleted == api_jobs[CacheKey(NormalizePrompt(api_item.prompt))].completed

\* the job of the request last served has just written its entry and
\* yielded its completed event
JustStored ==
    /\ api_pc = "streaming"
    /\ api_store.called
    /\ StoreWrites(api_item.prompt, api_store.fault)
    /\ gen_events # <<>>
    /\ gen_events[Len(gen_events)].status = "completed"

\* C39: after a job without image_context emitted completed and its cache
\* write left an entry, a later request without image_context whose prompt
\* normalizes to the same key, served before any other write to the key,
\* receives a single completed event whose job_id, sections, section_details
\* and final_video_url are those of the original completed event, with
\* cached true; and the completed event the job emits is the one built
\* before the cache write.
C39_CachedReplaysCompleted ==
    /\ ServedFromJobsEntry =>
          /\ Len(api_sse) = 1
          /\ LET cached_update == api_sse[1][2]
             IN  /\ api_sse[1] = Sse(cached_update)
                 /\ cached_update.status = "completed"
                 /\ cached_update.cached = TRUE
                 /\ cached_update.job_id = OriginalCompleted.job_id
                 /\ cached_update.sections = OriginalCompleted.sections
                 /\ cached_update.section_details = OriginalCompleted.section_details
                 /\ cached_update.final_video_url = OriginalCompleted.final_video_url
    /\ JustStored =>
          /\ gen_events[Len(gen_events)] = OriginalCompleted
          /\ "created_at" \notin DOMAIN gen_events[Len(gen_events)].metadata
          /\ "created_at" \in DOMAIN cache[CacheKey(NormalizePrompt(api_item.prompt))].metadata

\* a request with a job_id of its own is served the entry that the job of
\* the first request, under a generated id, wrote for another prompt of the
\* same key
C39_Witness ==
    /\ ServedFromJobsEntry
    /\ api_count = 2
    /\ api_item.job_id = "client-job"
    /\ OriginalCompleted.job_id = Uuid(1)
    /\ cache_before[CacheKey(NormalizePrompt(api_item.prompt))].metadata.prompt # api_item.prompt
    /\ api_sse[1][2].job_id = Uuid(1)
    /\ api_sse[1][2].sections = <<SectionUrl(1)>>

\* the variants of section s whose task ended with code
SuccessfulVariants(s) ==
    {v \in 1..NumVariants : vr_tasks[<<s, v>>] \in {"code", "short"}}

LowestSuccessful(s) ==
    CHOOSE v \in SuccessfulVariants(s) : \A w \in SuccessfulVariants(s) : v <= w

\* the script of section s by the rule of Stage 2: the narration of the
\* lowest-numbered successful variant, or the plan content when that
\* narration has fewer than MinScriptLen characters
ScriptByRule(s) ==
    IF vr_tasks[<<s, LowestSuccessful(s)>>] = "code"
    THEN Script("variant", s, LowestSuccessful(s), MinScriptLen)
    ELSE IF PlanContentLen(s) < MinContentLen
    THEN Script("named_plan_content", s, 0, PlanContentLen(s) + 3)
    ELSE Script("plan_content", s, 0, PlanContentLen(s))

\* C36: for every completion order of the variant tasks, the script a
\* section's audio synthesis is called with, and the script the completed
\* event reports for it, is the one extracted from the section's
\* lowest-numbered successful variant, or the plan-content fallback when that
\* extraction is shorter than 20 characters.
C36_ScriptOfLowestVariant ==
    /\ \A s \in DOMAIN vr_audio :
          /\ SuccessfulVariants(s) # {}
          /\ vr_audio[s] = ScriptByRule(s)
    /\ \A i \in 1..Len(vr_reported) :
          /\ SuccessfulVariants(vr_reported[i].section) # {}
          /\ vr_reported[i].script = ScriptByRule(vr_reported[i].section)

\* what holds: the sections that have a successful variant are voiced and
\* reported with the script of the rule, whatever the order in which the
\* tasks ended and whichever task wrote section_scripts last
VrScriptByRuleWhereSuccessful ==
    /\ \A s \in DOMAIN vr_audio :
          SuccessfulVariants(s) # {} => vr_audio[s] = ScriptByRule(s)
    /\ \A i \in 1..Len(vr_reported) :
          SuccessfulVariants(vr_reported[i].section) # {}
              => vr_reported[i].script = ScriptByRule(vr_reported[i].section)
    /\ vr_pc \in {"audio", "completed"} =>
          \A s \in VrSections :
              SuccessfulVariants(s) # {} =>
                  /\ s \in DOMAIN vr_scripts
                  /\ vr_scripts[s] = ScriptByRule(s)
                  /\ vr_variants[s][1] = LowestSuccessful(s)

\* what holds: a section without a successful variant is voiced only with
\* the empty script its tasks wrote
VrUnsuccessfulVoicedEmpty ==
    \A s \in DOMAIN vr_audio :
        SuccessfulVariants(s) = {} => vr_audio[s] = EmptyScript

\* a section whose first and third variants both ended with code is voiced
\* with the script of the first, another with the plan content; the job completed
VrLaterWriterOverwritten ==
    /\ vr_pc = "completed"
    /\ vr_tasks[<<1, 1>>] = "code"
    /\ vr_tasks[<<1, 3>>] = "code"
    /\ vr_audio[1] = Script("variant", 1, 1, MinScriptLen)
    /\ vr_tasks[<<2, 1>>] = "raised"
    /\ vr_tasks[<<2, 2>>] = "short"
    /\ vr_audio[2] = Script("plan_content", 2, 0, MinContentLen)

\* C37: at any time at most one render invocation of the section is
\* executing: the next variant's render is spawned, and a repair round is
\* started, only after the previous invocation has ended, also when the wait
\* for its result expired or raised.
C37_OneRenderAtATime == fb_running <= 1

\* what holds: only the invocation last spawned is waited for, and every
\* other invocation still executing was left behind by a wait that raised
FbExecutingWereAbandoned ==
    fb_running - (IF fb_pc = "waiting" THEN 1 ELSE 0)
        <= Cardinality({i \in FbIndexes("result") : ~fb_trace[i].good})

\* two render invocations of the section are executing
FbTwoRendersExecuting ==
    /\ fb_pc = "waiting"
    /\ fb_running = 2

\* the completed events the job has yielded
CompletedEvents == {i \in 1..Len(events) : events[i].status = "completed"}

\* C38: in every completed event, sections and section_details have the
\* same length, equal to metadata.num_sections; they list the same section
\* numbers in the same ascending order; every listed section number lies in
\* 1..(number of planned sections); and at least one listed section had a
\* local clip that went into the final video. (Stated of the event last
\* yielded, with the job's lists as they are then: every event is the last
\* one in the state its yield leads to.)
C38_CompletedEventShape ==
    (events # <<>> /\ events[Len(events)].status = "completed") =>
        LET e == events[Len(events)]
            n == Len(e.section_details)
        IN  /\ Len(e.sections) = n
            /\ e.metadata.num_sections = n
            /\ \A k \in 1..n :
                  /\ e.sections[k] = SectionUrl(e.section_details[k].section)
                  /\ e.section_details[k].video_url = e.sections[k]
                  /\ e.section_details[k].section \in 1..Len(video_structure)
            /\ \A k \in 1..(n - 1) :
                  e.section_details[k].section < e.section_details[k + 1].section
            /\ \E k \in 1..n, j \in 1..Len(scene_videos) :
                  /\ scene_videos[j].section = e.section_details[k].section
                  /\ scene_videos[j].section \in local_files
            /\ {"rename_final", "ffmpeg_concat"} \cap calls # {}

\* a completed event lists two sections of which only the second had a
\* local clip (the first was uploaded by its render unit and not found)
C38_Witness ==
    /\ CompletedEvents # {}
    /\ Len(LastEvent.section_details) = 2
    /\ Len(scene_videos) = 1
    /\ scene_videos[1].section = 2
    /\ "rename_final" \in calls

\* the events of the job that carry progress_percentage
WithProgress == {i \in 1..Len(events) : "progress_percentage" \in DOMAIN events[i]}

\* the event at index i carries progress_percentage
HasProgress(i) == "progress_percentage" \in DOMAIN events[i]

\* C40: across the events of one job, every event carries the same job_id,
\* the progress_percentage of successive events that carry one never
\* decreases, every processing event has a progress below 100, and a
\* progress of 100 appears only in the completed event. (Stated of the
\* event last yielded against every earlier one: every prefix of a job's
\* stream is the event list of the state the yield of its last event leads
\* to.)
C40_ProgressMonotone ==
    events # <<>> =>
        LET n == Len(events)
            e == events[n]
        IN  /\ "job_id" \in DOMAIN e
            /\ e.job_id = events[1].job_id
            /\ HasProgress(n) =>
                  /\ \A i \in 1..(n - 1) :
                        HasProgress(i) =>
                            events[i].progress_percentage <= e.progress_percentage
                  /\ e.progress_percentage = 100 => e.status = "completed"
            /\ e.status = "processing" =>
                  /\ HasProgress(n)
                  /\ e.progress_percentage < 100

\* a job yielded its nine processing events and its completed event
C40_Witness ==
    /\ Completed
    /\ Len(events) = 10
    /\ \A i \in 1..9 : events[i].status = "processing"
    /\ events[9].progress_percentage = 90
    /\ LastEvent.progress_percentage = 100

\* a job failed after its 65% event: the failed event carries the job_id
\* and no progress
FailedAfterProgress ==
    /\ pc = "done"
    /\ Len(events) >= 2
    /\ LastEvent.status = "failed"
    /\ events[Len(events) - 1].progress_percentage = 65
    /\ Len(events) \notin WithProgress

====
